---- MODULE Spec2Model ----
(***************************************************************************)
(* A model of the interactive web ray tracer: the vector math, the camera, *)
(* the primitives, the scene queries, the shading and render loop, the     *)
(* texture manager, the OBJ loader and the UI handlers of main.js.         *)
(*                                                                         *)
(* Numbers.  A JavaScript double r is modelled by the integer              *)
(* round(r * Unit) (fixed point, three decimals).  Every arithmetic        *)
(* operator rounds to the nearest representable value, as IEEE arithmetic  *)
(* does at its own resolution.  null and undefined are the string Null;    *)
(* an absent property of an object is an absent record field.              *)
(***************************************************************************)
EXTENDS Integers, Sequences, FiniteSets, TLC

\* ------------------------------------------------------------------------
\* Fixed-point numbers
\* ------------------------------------------------------------------------
Unit == 10^3

Null == "null"

Abs(a) == IF a < 0 THEN -a ELSE a

Max(a, b) == IF a >= b THEN a ELSE b

Min(a, b) == IF a <= b THEN a ELSE b

\* a / b rounded to the nearest integer, b # 0
Quot(a, b) ==
    IF b > 0 THEN (a + b \div 2) \div b ELSE (-a + (-b) \div 2) \div (-b)

\* the fixed-point value of the decimal literal n / d
Lit(n, d) == Quot(n * Unit, d)

\* x * y and x / y on fixed-point numbers
Mul(a, b) == Quot(a * b, Unit)

Div(a, b) == Quot(a * Unit, b)

\* Newton's iteration for the integer square root: x is the current
\* estimate, never below the root, and y the next one
RECURSIVE SqrtStep(_, _, _)
SqrtStep(n, x, y) ==
    IF y >= x THEN x ELSE SqrtStep(n, y, (y + n \div y) \div 2)

\* the integer nearest to the square root of the integer n >= 0
ISqrt(n) ==
    LET Nearest(r) == IF n - r * r > r THEN r + 1 ELSE r
    IN  IF n <= 0 THEN 0
        ELSE Nearest(SqrtStep(n, 46340, (46340 + n \div 46340) \div 2))

\* Math.sqrt on a fixed-point number x >= 0
MathSqrt(x) == ISqrt(x * Unit)

\* Math.floor(x) of a fixed-point number, as an integer
MathFloor(x) == x \div Unit

\* Math.pow(b, n) for a fixed-point base and an integer n >= 0
RECURSIVE MathPow(_, _)
MathPow(b, n) == IF n = 0 THEN Unit ELSE Mul(b, MathPow(b, n - 1))

\* comparisons of a fixed-point number with the literals 1e-4 and 1e-6,
\* which lie below the resolution: for an integer k and a real e >= 0,
\* k > e iff k > floor(e), and k < e iff k < ceil(e)
GtEps4(t) == t > (Unit \div 10^4)

LtEps6(x) == x < ((Unit + 10^6 - 1) \div 10^6)

GtEps6(x) == x > (Unit \div 10^6)

\* ------------------------------------------------------------------------
\* Vec3 (math.js)
\* ------------------------------------------------------------------------
Vec3(x, y, z) == [x |-> x, y |-> y, z |-> z]

add(a, b) == Vec3(a.x + b.x, a.y + b.y, a.z + b.z)

subtract(a, b) == Vec3(a.x - b.x, a.y - b.y, a.z - b.z)

multiplyScalar(a, s) == Vec3(Mul(a.x, s), Mul(a.y, s), Mul(a.z, s))

divideScalar(a, s) ==
    IF s = 0 THEN Vec3(0, 0, 0) ELSE Vec3(Div(a.x, s), Div(a.y, s), Div(a.z, s))

multiply(a, b) == Vec3(Mul(a.x, b.x), Mul(a.y, b.y), Mul(a.z, b.z))

dot(a, b) == Mul(a.x, b.x) + Mul(a.y, b.y) + Mul(a.z, b.z)

cross(a, b) ==
    Vec3(Mul(a.y, b.z) - Mul(a.z, b.y),
         Mul(a.z, b.x) - Mul(a.x, b.z),
         Mul(a.x, b.y) - Mul(a.y, b.x))

\* x*x + y*y + z*z, kept exact: the result counts units of 1 / Unit^2
lengthSquared(a) == a.x * a.x + a.y * a.y + a.z * a.z

\* lengthSquared() < 1e-6 and lengthSquared() > 1e-6
SqLtEps6(q) == q < (Unit * Unit + 10^6 - 1) \div 10^6

SqGtEps6(q) == q > (Unit * Unit) \div 10^6

length(a) == ISqrt(lengthSquared(a))

normalize(a) ==
    LET Scaled(len) == IF GtEps6(len) THEN divideScalar(a, len) ELSE Vec3(0, 0, 0)
    IN  Scaled(length(a))

negate(a) == Vec3(-a.x, -a.y, -a.z)

\* ------------------------------------------------------------------------
\* Math.sin, Math.cos, Math.tan, Math.atan2, Math.acos
\* ------------------------------------------------------------------------
MathPI == Lit(314159, 100000)

\* x - x^3/3! + x^5/5! - x^7/7! for 0 <= x <= PI/2, x2 being x * x
SinSeries(x, x2) ==
    Min(Unit, Mul(x, Unit - Mul(Quot(x2, 6),
                                Unit - Mul(Quot(x2, 20), Unit - Quot(x2, 42)))))

\* the sine of r, 0 <= r < 2 PI
SinReduced(r) ==
    IF 2 * r <= MathPI THEN SinSeries(r, Mul(r, r))
    ELSE IF r <= MathPI THEN SinSeries(MathPI - r, Mul(MathPI - r, MathPI - r))
    ELSE IF 2 * r <= 3 * MathPI THEN -SinSeries(r - MathPI, Mul(r - MathPI, r - MathPI))
    ELSE -SinSeries(2 * MathPI - r, Mul(2 * MathPI - r, 2 * MathPI - r))

MathSin(x) == SinReduced(x % (2 * MathPI))

MathCos(x) == MathSin(x + MathPI \div 2)

MathTan(x) == Div(MathSin(x), MathCos(x))

\* atan t for 0 <= t <= 1: (PI/4) t - t (t - 1) (0.2447 + 0.0663 t)
AtanUnit(t) ==
    Mul(MathPI \div 4, t) - Mul(Mul(t, t - Unit), Lit(2447, 10000) + Mul(Lit(663, 10000), t))

MathAtan2(y, x) ==
    LET Signed(a) == IF y < 0 THEN -a ELSE a
        Sided(a)  == Signed(IF x < 0 THEN MathPI - a ELSE a)
    IN  Sided(IF x = 0 /\ y = 0 THEN 0
              ELSE IF Abs(y) <= Abs(x) THEN AtanUnit(Div(Abs(y), Abs(x)))
              ELSE MathPI \div 2 - AtanUnit(Div(Abs(x), Abs(y))))

MathAcos(y) ==
    LET Clamped(c) == MathAtan2(MathSqrt(Unit - Mul(c, c)), c)
    IN  Clamped(Max(-Unit, Min(Unit, y)))

\* ------------------------------------------------------------------------
\* Ray (ray.js)
\* ------------------------------------------------------------------------
Ray(origin, direction) == [origin |-> origin, direction |-> normalize(direction)]

pointAt(ray, t) == add(ray.origin, multiplyScalar(ray.direction, t))

\* ------------------------------------------------------------------------
\* Light and Camera (light.js, camera.js)
\* ------------------------------------------------------------------------
Light(position, color) == [position |-> position, color |-> color]

\* updateBasis from its third assignment on: v = w x u
updateBasisV(cam) == [cam EXCEPT !.v = normalize(cross(cam.w, cam.u))]

\* updateBasis without the fallback: u is tempU normalized, whatever its
\* length
updateBasisUNormalized(cam, tempU) ==
    updateBasisV([cam EXCEPT !.u = normalize(tempU)])

\* updateBasis from its second assignment on: u, from tempU = worldUp x w
updateBasisU(cam, tempU) ==
    updateBasisV([cam EXCEPT !.u = IF SqLtEps6(lengthSquared(tempU))
                                   THEN Vec3(Unit, 0, 0)
                                   ELSE normalize(tempU)])

\* updateBasis once w is assigned
updateBasisW(cam) == updateBasisU(cam, cross(Vec3(0, Unit, 0), cam.w))

\* the camera with w, then u, then v recomputed
updateBasis(cam) ==
    updateBasisW([cam EXCEPT !.w = normalize(subtract(cam.eyePosition, cam.lookAt))])

Camera(eye, lookAt, up, fovDeg, imageWidth, imageHeight) ==
    updateBasis([eyePosition |-> eye, lookAt |-> lookAt, upVector |-> up,
                 fov |-> fovDeg, imageWidth |-> imageWidth, imageHeight |-> imageHeight,
                 u |-> Vec3(0, 0, 0), v |-> Vec3(0, 0, 0), w |-> Vec3(0, 0, 0)])

\* computePrimaryRay once the half extents of the image plane are known
primaryRayThrough(cam, i, j, halfWidth, halfHeight) ==
    Ray(cam.eyePosition,
        normalize(subtract(
            add(multiplyScalar(cam.u,
                    Mul(Div((2 * i + 1) * Unit, cam.imageWidth * Unit) - Unit, halfWidth)),
                multiplyScalar(cam.v,
                    Mul(Unit - Div((2 * j + 1) * Unit, cam.imageHeight * Unit),
                        halfHeight))),
            cam.w)))

\* computePrimaryRay once aspectRatio and halfHeight are known
primaryRayOnPlane(cam, i, j, aspectRatio, halfHeight) ==
    primaryRayThrough(cam, i, j, Mul(halfHeight, aspectRatio), halfHeight)

\* i and j are integer pixel indices; imageWidth and imageHeight integers
computePrimaryRay(cam, i, j) ==
    primaryRayOnPlane(cam, i, j, Div(cam.imageWidth * Unit, cam.imageHeight * Unit),
                      MathTan(Div(Div(Mul(cam.fov, MathPI), 180 * Unit), 2 * Unit)))

\* ------------------------------------------------------------------------
\* Object and IntersectionInfo (object.js, scene.js)
\* ------------------------------------------------------------------------
\* textureId || 'No texture applied'
Object(color, modelName, textureId, specularColor, shininess, reflectivity) ==
    [color |-> color, modelName |-> modelName, textureId |-> textureId,
     textureName |-> IF textureId # Null /\ textureId # ""
                     THEN textureId ELSE "No texture applied",
     specularColor |-> specularColor, shininess |-> shininess,
     reflectivity |-> reflectivity]

\* the constructor takes (point, normal, distance): a fourth argument,
\* the UV coordinates every intersect passes, is not a parameter and is
\* not stored
IntersectionInfo(point, normal, distance, uv) ==
    [point |-> point, normal |-> normal, distance |-> distance]

NoHit == [hit |-> FALSE]

\* a null or undefined UV
NoUV == <<>>

\* ------------------------------------------------------------------------
\* Sphere (sphere.js)
\* ------------------------------------------------------------------------
Sphere(center, radius, color, textureId) ==
    Object(color, "", textureId, Vec3(0, 0, 0), 0, 0)
        @@ [kind |-> "Sphere", center |-> center, radius |-> radius]

\* the spherical UV mapping of a unit normal
SphereUV(normal) ==
    Vec3(Unit - Div(MathAtan2(normal.z, normal.x) + MathPI, 2 * MathPI),
         Div(MathAcos(normal.y), MathPI), 0)

\* Sphere.intersect from the hit point on
sphereHitWithNormal(t, intersectionPoint, normal) ==
    [hit |-> TRUE,
     info |-> IntersectionInfo(intersectionPoint, normal, t, SphereUV(normal))]

sphereHitAt(s, t, intersectionPoint) ==
    sphereHitWithNormal(t, intersectionPoint,
                        normalize(subtract(intersectionPoint, s.center)))

\* Sphere.intersect once t is chosen among the roots t0 and t1
sphereChosen(s, ray, t) == IF t > 0 THEN sphereHitAt(s, t, pointAt(ray, t)) ELSE NoHit

\* the choice among the roots that looks at the larger root first
sphereRootsLargest(s, ray, t0, t1) ==
    sphereChosen(s, ray, IF GtEps4(t1) THEN t1 ELSE IF GtEps4(t0) THEN t0 ELSE -Unit)

sphereRoots(s, ray, t0, t1) ==
    sphereChosen(s, ray, IF GtEps4(t0) THEN t0 ELSE IF GtEps4(t1) THEN t1 ELSE -Unit)

\* Sphere.intersect once the discriminant is known
sphereSolve(s, ray, a, b, discriminant, sqrtD) ==
    IF discriminant < 0 \/ a = 0 THEN NoHit
    ELSE sphereRoots(s, ray, Div(-b - sqrtD, 2 * a), Div(-b + sqrtD, 2 * a))

sphereDiscriminant(s, ray, a, b, discriminant) ==
    sphereSolve(s, ray, a, b, discriminant, MathSqrt(discriminant))

sphereQuadratic(s, ray, a, b, c) ==
    sphereDiscriminant(s, ray, a, b, Mul(b, b) - 4 * Mul(a, c))

sphereFrom(s, ray, oc) ==
    sphereQuadratic(s, ray, dot(ray.direction, ray.direction), 2 * dot(oc, ray.direction),
                    dot(oc, oc) - Mul(s.radius, s.radius))

SphereIntersect(s, ray) == sphereFrom(s, ray, subtract(ray.origin, s.center))

\* ------------------------------------------------------------------------
\* Plane (plane.js)
\* ------------------------------------------------------------------------
Plane(point, normal, color, textureId, uvScale) ==
    Object(color, "", textureId, Vec3(0, 0, 0), 0, 0)
        @@ [kind |-> "Plane", point |-> point, normal |-> normalize(normal),
            uvScale |-> uvScale]

\* the planar UV mapping once both axes are known
planeUVMapped(p, pRelative, uAxis, vAxis) ==
    Vec3(Mul(dot(pRelative, uAxis), p.uvScale), Mul(dot(pRelative, vAxis), p.uvScale), 0)

planeUVAxes(p, intersectionPoint, uAxis) ==
    planeUVMapped(p, subtract(intersectionPoint, p.point), uAxis,
                  normalize(cross(p.normal, uAxis)))

planeUVFrom(p, intersectionPoint, uAxis) ==
    planeUVAxes(p, intersectionPoint,
                normalize(subtract(uAxis, multiplyScalar(p.normal, dot(p.normal, uAxis)))))

\* the planar UV mapping of a point of the plane
PlaneUV(p, intersectionPoint) ==
    planeUVFrom(p, intersectionPoint,
                IF (Abs(p.normal.x) < Lit(5, 10) /\ Abs(p.normal.y) < Lit(5, 10))
                   \/ (Abs(p.normal.x) < Lit(5, 10) /\ Abs(p.normal.z) < Lit(5, 10))
                THEN Vec3(Unit, 0, 0) ELSE Vec3(0, Unit, 0))

planeHitAt(p, rayDirDotNormal, t, intersectionPoint) ==
    [hit |-> TRUE,
     info |-> IntersectionInfo(intersectionPoint,
                  IF rayDirDotNormal < 0 THEN p.normal ELSE negate(p.normal),
                  t, PlaneUV(p, intersectionPoint))]

planeAlong(p, ray, rayDirDotNormal, t) ==
    IF GtEps4(t) THEN planeHitAt(p, rayDirDotNormal, t, pointAt(ray, t)) ELSE NoHit

planeFacing(p, ray, rayDirDotNormal) ==
    IF LtEps6(Abs(rayDirDotNormal)) THEN NoHit
    ELSE planeAlong(p, ray, rayDirDotNormal,
                    Div(dot(subtract(p.point, ray.origin), p.normal), rayDirDotNormal))

PlaneIntersect(p, ray) == planeFacing(p, ray, dot(ray.direction, p.normal))

\* ------------------------------------------------------------------------
\* Triangle and Mesh (triangle.js, mesh.js)
\* ------------------------------------------------------------------------
\* a Vec3 with a coordinate that is NaN: marked by the field nan, its
\* coordinates are not numbers and are never read
NaNVec3 == [x |-> 0, y |-> 0, z |-> 0, nan |-> TRUE]

IsNaNVec3(a) == "nan" \in DOMAIN a

\* normals and uvs are sequences of three vectors, or <<>> for null; on a
\* NaN vertex the cross product is NaN, its length is not > 1e-6 and
\* normalize returns the zero vector
Triangle(v0, v1, v2, color, normals, uvs, textureId) ==
    Object(color, "", textureId, Vec3(0, 0, 0), 0, 0)
        @@ [kind |-> "Triangle", v0 |-> v0, v1 |-> v1, v2 |-> v2,
            normals |-> normals, uvs |-> uvs,
            faceNormal |-> IF IsNaNVec3(v0) \/ IsNaNVec3(v1) \/ IsNaNVec3(v2)
                           THEN Vec3(0, 0, 0)
                           ELSE normalize(cross(subtract(v1, v0), subtract(v2, v0)))]

\* vs[0] * w + vs[1] * u + vs[2] * v, with w = 1 - u - v
triangleWeighted(vs, u, v) ==
    add(add(multiplyScalar(vs[1], Unit - u - v), multiplyScalar(vs[2], u)),
        multiplyScalar(vs[3], v))

triangleHitAt(tri, ray, u, v, t) ==
    [hit |-> TRUE,
     info |-> IntersectionInfo(pointAt(ray, t),
                  IF Len(tri.normals) = 3
                  THEN normalize(triangleWeighted(tri.normals, u, v))
                  ELSE IF dot(ray.direction, tri.faceNormal) < 0
                       THEN tri.faceNormal ELSE negate(tri.faceNormal),
                  t,
                  IF Len(tri.uvs) = 3 THEN triangleWeighted(tri.uvs, u, v) ELSE NoUV)]

triangleAlong(tri, ray, u, v, t) ==
    IF GtEps4(t) THEN triangleHitAt(tri, ray, u, v, t) ELSE NoHit

triangleWithV(tri, ray, det, qvec, u, v) ==
    IF v < 0 \/ u + v > Unit THEN NoHit
    ELSE triangleAlong(tri, ray, u, v, Div(dot(subtract(tri.v2, tri.v0), qvec), det))

triangleWithQ(tri, ray, det, qvec, u) ==
    triangleWithV(tri, ray, det, qvec, u, Div(dot(ray.direction, qvec), det))

triangleWithU(tri, ray, det, u) ==
    IF u < 0 \/ u > Unit THEN NoHit
    ELSE triangleWithQ(tri, ray, det,
                       cross(subtract(ray.origin, tri.v0), subtract(tri.v1, tri.v0)), u)

triangleWithDet(tri, ray, pvec, det) ==
    IF LtEps6(Abs(det)) THEN NoHit
    ELSE triangleWithU(tri, ray, det, Div(dot(subtract(ray.origin, tri.v0), pvec), det))

triangleWithP(tri, ray, pvec) ==
    triangleWithDet(tri, ray, pvec, dot(subtract(tri.v1, tri.v0), pvec))

TriangleIntersect(tri, ray) ==
    triangleWithP(tri, ray, cross(ray.direction, subtract(tri.v2, tri.v0)))

Mesh(triangles, color, name, textureId, specularColor, shininess, reflectivity) ==
    Object(color, name, textureId, specularColor, shininess, reflectivity)
        @@ [kind |-> "Mesh", triangles |-> triangles,
            position |-> Vec3(0, 0, 0), scale |-> Vec3(Unit, Unit, Unit)]

Infinity == 2^30 + (2^30 - 1)

\* the loop that lets a later triangle at the same distance win
RECURSIVE MeshScanTiesLast(_, _, _, _, _, _)
MeshScanTiesLast(triangles, ray, k, closestDistance, hitTriangle, hitInfo) ==
    LET Step(currentHitResult, closer) ==
            MeshScanTiesLast(triangles, ray, k + 1,
                             IF closer THEN currentHitResult.info.distance
                             ELSE closestDistance,
                             IF closer THEN k ELSE hitTriangle,
                             IF closer THEN currentHitResult.info ELSE hitInfo)
        Compared(currentHitResult) ==
            Step(currentHitResult,
                 currentHitResult.hit /\ currentHitResult.info.distance <= closestDistance)
    IN  IF k > Len(triangles)
        THEN IF hitTriangle # 0 THEN [hit |-> TRUE, info |-> hitInfo] ELSE NoHit
        ELSE Compared(TriangleIntersect(triangles[k], ray))

\* the loop of Mesh.intersect from triangles[k] on; hitTriangle is the
\* position of the closest triangle so far, 0 for null
RECURSIVE MeshScan(_, _, _, _, _, _)
MeshScan(triangles, ray, k, closestDistance, hitTriangle, hitInfo) ==
    LET Step(currentHitResult, closer) ==
            MeshScan(triangles, ray, k + 1,
                     IF closer THEN currentHitResult.info.distance ELSE closestDistance,
                     IF closer THEN k ELSE hitTriangle,
                     IF closer THEN currentHitResult.info ELSE hitInfo)
        Compared(currentHitResult) ==
            Step(currentHitResult,
                 currentHitResult.hit /\ currentHitResult.info.distance < closestDistance)
    IN  IF k > Len(triangles)
        THEN IF hitTriangle # 0 THEN [hit |-> TRUE, info |-> hitInfo] ELSE NoHit
        ELSE Compared(TriangleIntersect(triangles[k], ray))

MeshIntersect(m, ray) == MeshScan(m.triangles, ray, 1, Infinity, 0, <<>>)

\* obj.intersect(ray), dispatched on the class of obj
intersect(obj, ray) ==
    CASE obj.kind = "Sphere"   -> SphereIntersect(obj, ray)
      [] obj.kind = "Plane"    -> PlaneIntersect(obj, ray)
      [] obj.kind = "Triangle" -> TriangleIntersect(obj, ray)
      [] obj.kind = "Mesh"     -> MeshIntersect(obj, ray)

\* ------------------------------------------------------------------------
\* Scene (scene.js).  A scene is [objects, lights, backgroundColor]; a hit
\* object is named by its position in scene.objects, 0 for null, and a null
\* info is <<>>
\* ------------------------------------------------------------------------
\* the scan with <= in place of <: of the primitives at the least distance
\* the last one added wins
RECURSIVE TraceScanTiesLast(_, _, _, _, _, _)
TraceScanTiesLast(objects, ray, k, closestDistance, hitObject, hitInfo) ==
    LET Step(currentHitResult, closer) ==
            TraceScanTiesLast(objects, ray, k + 1,
                      IF closer THEN currentHitResult.info.distance ELSE closestDistance,
                      IF closer THEN k ELSE hitObject,
                      IF closer THEN currentHitResult.info ELSE hitInfo)
        Compared(currentHitResult) ==
            Step(currentHitResult,
                 currentHitResult.hit /\ currentHitResult.info.distance <= closestDistance)
    IN  IF k > Len(objects)
        THEN [object |-> hitObject, info |-> hitInfo]
        ELSE Compared(intersect(objects[k], ray))

RECURSIVE TraceScan(_, _, _, _, _, _)
TraceScan(objects, ray, k, closestDistance, hitObject, hitInfo) ==
    LET Step(currentHitResult, closer) ==
            TraceScan(objects, ray, k + 1,
                      IF closer THEN currentHitResult.info.distance ELSE closestDistance,
                      IF closer THEN k ELSE hitObject,
                      IF closer THEN currentHitResult.info ELSE hitInfo)
        Compared(currentHitResult) ==
            Step(currentHitResult,
                 currentHitResult.hit /\ currentHitResult.info.distance < closestDistance)
    IN  IF k > Len(objects)
        THEN [object |-> hitObject, info |-> hitInfo]
        ELSE Compared(intersect(objects[k], ray))

trace(scene, ray) == TraceScan(scene.objects, ray, 1, Infinity, 0, <<>>)

\* the scan without the test of the distance against the light's: every
\* hit of the shadow ray counts
RECURSIVE ShadowScanAnyHit(_, _, _, _)
ShadowScanAnyHit(objects, shadowRay, distanceToLight, k) ==
    LET Blocked(shadowHitResult) ==
            IF shadowHitResult.hit
            THEN TRUE
            ELSE ShadowScanAnyHit(objects, shadowRay, distanceToLight, k + 1)
    IN  IF k > Len(objects) THEN FALSE ELSE Blocked(intersect(objects[k], shadowRay))

RECURSIVE ShadowScan(_, _, _, _)
ShadowScan(objects, shadowRay, distanceToLight, k) ==
    LET Blocked(shadowHitResult) ==
            IF shadowHitResult.hit
               /\ shadowHitResult.info.distance < distanceToLight - Lit(1, 10000)
            THEN TRUE
            ELSE ShadowScan(objects, shadowRay, distanceToLight, k + 1)
    IN  IF k > Len(objects) THEN FALSE ELSE Blocked(intersect(objects[k], shadowRay))

ShadowRay(point, light) ==
    LET From(lightDir) == Ray(add(point, multiplyScalar(lightDir, Lit(1, 10000))), lightDir)
    IN  From(normalize(subtract(light.position, point)))

isInShadow(scene, point, light) ==
    ShadowScan(scene.objects, ShadowRay(point, light),
               length(subtract(light.position, point)), 1)

\* ------------------------------------------------------------------------
\* TextureManager (objLoader.js).  textures is the Map, as the set of its
\* entries [id, width, height, data]
\* ------------------------------------------------------------------------
hasTexture(textures, textureId) == \E t \in textures : t.id = textureId

getTexture(textures, textureId) == CHOOSE t \in textures : t.id = textureId

\* Map.set: the entry replaces one of the same id
setTexture(textures, entry) == {t \in textures : t.id # entry.id} \cup {entry}

\* the color of the texel at the 0-based index into texture.data
textureTexel(texture, index) ==
    Vec3(Quot(texture.data[index + 1] * Unit, 255),
         Quot(texture.data[index + 2] * Unit, 255),
         Quot(texture.data[index + 3] * Unit, 255))

textureSampled(texture, x, y) == textureTexel(texture, (y * texture.width + x) * 4)

\* the texel without the flip of v: y from uv.y, not from 1 - uv.y
sampleTextureUnflipped(texture, uv) ==
    textureSampled(texture,
                   Min(Max(0, MathFloor(uv.x * texture.width)), texture.width - 1),
                   Min(Max(0, MathFloor(uv.y * texture.height)), texture.height - 1))

sampleTextureOf(texture, uv) ==
    textureSampled(texture,
                   Min(Max(0, MathFloor(uv.x * texture.width)), texture.width - 1),
                   Min(Max(0, MathFloor((Unit - uv.y) * texture.height)),
                       texture.height - 1))

\* a texture that is not found sampled as white
sampleTextureWhite(textures, textureId, uv) ==
    IF ~hasTexture(textures, textureId)
    THEN Vec3(Unit, Unit, Unit)
    ELSE sampleTextureOf(getTexture(textures, textureId), uv)

sampleTexture(textures, textureId, uv) ==
    IF ~hasTexture(textures, textureId)
    THEN Vec3(0, 0, 0)
    ELSE sampleTextureOf(getTexture(textures, textureId), uv)

\* ------------------------------------------------------------------------
\* Raytracer (raytracer.js)
\* ------------------------------------------------------------------------
\* the methods class Vec3 defines
Vec3Methods ==
    {"fromScalar", "add", "subtract", "multiplyScalar", "divideScalar", "multiply",
     "dot", "cross", "length", "lengthSquared", "normalize", "negate", "clamp",
     "toHexString", "fromHexString"}

\* incident - 2 (incident . normal) normal
reflect(incident, normal) ==
    subtract(incident, multiplyScalar(normal, 2 * dot(incident, normal)))

\* hitInfo.uv: the UV coordinates stored in an intersection info, NoUV
\* where the info has no such property
InfoUV(hitInfo) == IF "uv" \in DOMAIN hitInfo THEN hitInfo.uv ELSE NoUV

\* the contribution of an unshadowed light from its specular test on;
\* thrown when the call of a method that Vec3 does not define raises a
\* TypeError
lightSpecular(hitObject, hitInfo, cameraEyePos, light, lightDir, diffuse) ==
    IF hitObject.shininess > 0 /\ SqGtEps6(lengthSquared(hitObject.specularColor))
    THEN IF "reflect" \notin Vec3Methods
         THEN [thrown |-> TRUE, color |-> Vec3(0, 0, 0)]
         ELSE [thrown |-> FALSE,
               color |-> add(diffuse,
                   multiplyScalar(multiply(hitObject.specularColor, light.color),
                       MathPow(Max(0, dot(reflect(negate(lightDir), hitInfo.normal),
                                          normalize(subtract(cameraEyePos,
                                                             hitInfo.point)))),
                               MathFloor(hitObject.shininess))))]
    ELSE [thrown |-> FALSE, color |-> diffuse]

\* the contribution of an unshadowed light
lightDiffuse(hitObject, hitInfo, objectColor, cameraEyePos, light, lightDir) ==
    lightSpecular(hitObject, hitInfo, cameraEyePos, light, lightDir,
                  multiplyScalar(multiply(objectColor, light.color),
                                 Max(0, dot(hitInfo.normal, lightDir))))

\* [thrown, color]: the contribution of one light
LightContribution(scene, hitObject, hitInfo, objectColor, cameraEyePos, light) ==
    IF isInShadow(scene, hitInfo.point, light)
    THEN [thrown |-> FALSE, color |-> Vec3(0, 0, 0)]
    ELSE lightDiffuse(hitObject, hitInfo, objectColor, cameraEyePos, light,
                      normalize(subtract(light.position, hitInfo.point)))

\* the loop over the lights that clamps the sum to [0, 1] after each light
RECURSIVE LightLoopClamped(_, _, _, _, _, _, _)
LightLoopClamped(scene, hitObject, hitInfo, objectColor, cameraEyePos, k, finalColor) ==
    LET Clamped(c) == Vec3(Max(0, Min(Unit, c.x)), Max(0, Min(Unit, c.y)),
                           Max(0, Min(Unit, c.z)))
        Added(lightContribution) ==
            IF lightContribution.thrown
            THEN [thrown |-> TRUE, color |-> finalColor]
            ELSE LightLoopClamped(scene, hitObject, hitInfo, objectColor, cameraEyePos,
                                  k + 1, Clamped(add(finalColor, lightContribution.color)))
    IN  IF k > Len(scene.lights)
        THEN [thrown |-> FALSE, color |-> finalColor]
        ELSE Added(LightContribution(scene, hitObject, hitInfo, objectColor,
                                     cameraEyePos, scene.lights[k]))

RECURSIVE LightLoop(_, _, _, _, _, _, _)
LightLoop(scene, hitObject, hitInfo, objectColor, cameraEyePos, k, finalColor) ==
    LET Added(lightContribution) ==
            IF lightContribution.thrown
            THEN [thrown |-> TRUE, color |-> finalColor]
            ELSE LightLoop(scene, hitObject, hitInfo, objectColor, cameraEyePos,
                           k + 1, add(finalColor, lightContribution.color))
    IN  IF k > Len(scene.lights)
        THEN [thrown |-> FALSE, color |-> finalColor]
        ELSE Added(LightContribution(scene, hitObject, hitInfo, objectColor,
                                     cameraEyePos, scene.lights[k]))

\* the diffuse color traceRay shades a hit with
ObjectColor(textures, hitObject, hitInfo) ==
    IF hitObject.textureId # Null /\ hitObject.textureId # "" /\ InfoUV(hitInfo) # NoUV
    THEN sampleTexture(textures, hitObject.textureId, InfoUV(hitInfo))
    ELSE hitObject.color

\* a miss returns black
traceRayBlack(scene) ==
    [thrown |-> FALSE, color |-> Vec3(0, 0, 0), object |-> 0,
     objectColor |-> Vec3(0, 0, 0), info |-> <<>>]

\* what traceRay returns for a ray that hits nothing
traceRayBackground(scene) ==
    [thrown |-> FALSE, color |-> scene.backgroundColor, object |-> 0,
     objectColor |-> scene.backgroundColor, info |-> <<>>]

traceRayShaded(hitResult, objectColor, finalColor) ==
    [thrown |-> finalColor.thrown, color |-> finalColor.color,
     object |-> hitResult.object, objectColor |-> objectColor, info |-> hitResult.info]

traceRayColored(scene, cameraEyePos, hitResult, hitObject, objectColor) ==
    traceRayShaded(hitResult, objectColor,
                   LightLoop(scene, hitObject, hitResult.info, objectColor,
                             cameraEyePos, 1, Vec3(0, 0, 0)))

traceRayHit(scene, textures, cameraEyePos, hitResult, hitObject) ==
    traceRayColored(scene, cameraEyePos, hitResult, hitObject,
                    ObjectColor(textures, hitObject, hitResult.info))

traceRayFound(scene, textures, cameraEyePos, hitResult) ==
    IF hitResult.object # 0
    THEN traceRayHit(scene, textures, cameraEyePos, hitResult,
                     scene.objects[hitResult.object])
    ELSE traceRayBackground(scene)

\* [thrown, color, object, objectColor, info]: the color returned, or thrown;
\* with the hit object (0 for none), the diffuse color the shading used and
\* the intersection info of the hit
traceRay(scene, textures, ray, depth, cameraEyePos) ==
    IF depth > 3
    THEN traceRayBackground(scene)
    ELSE traceRayFound(scene, textures, cameraEyePos, trace(scene, ray))

\* the pick with the pixel's row and column taken for each other
pickObjectTransposed(camera, scene, pixelX, pixelY) ==
    trace(scene, computePrimaryRay(camera, pixelY, pixelX))

pickObject(camera, scene, pixelX, pixelY) ==
    trace(scene, computePrimaryRay(camera, pixelX, pixelY))

\* Math.floor(Math.max(0, Math.min(1, c)) * 255)
Quantize(c) == (Max(0, Min(Unit, c)) * 255) \div Unit

\* pixels with the four bytes at the 0-based index written
WritePixel(pixels, index, r, g, b) ==
    [i \in 1..Len(pixels) |->
        IF i = index + 1 THEN r
        ELSE IF i = index + 2 THEN g
        ELSE IF i = index + 3 THEN b
        ELSE IF i = index + 4 THEN 255
        ELSE pixels[i]]

\* the index with a stride of three bytes a pixel
PixelIndexPacked(x, y, width) == (y * width + x) * 3

\* the index render writes pixel (x, y) at
PixelIndex(x, y, width) == (y * width + x) * 4

\* what render knows of a pixel it traced: the color traceRay returned, the
\* hit object, its intersection info and the diffuse color used
renderEntry(color) ==
    [color |-> color.color, object |-> color.object, objectColor |-> color.objectColor,
     info |-> color.info]

\* out with the pixel at index written in the traced color
renderWritten(out, color, index) ==
    [pixels |-> WritePixel(out.pixels, index, Quantize(color.color.x),
                           Quantize(color.color.y), Quantize(color.color.z)),
     writes |-> [i \in 1..Len(out.writes) |->
                    IF i > index /\ i <= index + 4
                    THEN out.writes[i] + 1 ELSE out.writes[i]],
     shaded |-> Append(out.shaded, renderEntry(color)),
     completed |-> FALSE]

\* the two loops of render from pixel number k = y * width + x on.  out is
\* [pixels, writes, shaded, completed]: the buffer, how often the call has
\* written each byte, an entry for each pixel traced, and whether the call
\* returned (it does not when traceRay throws)
RECURSIVE RenderLoop(_, _, _, _, _, _, _)
RenderLoop(camera, scene, textures, width, height, k, out) ==
    LET Traced(color) ==
            IF color.thrown
            THEN [out EXCEPT !.shaded = Append(@, renderEntry(color))]
            ELSE RenderLoop(camera, scene, textures, width, height, k + 1,
                            renderWritten(out, color,
                                          PixelIndex(k % width, k \div width, width)))
    IN  IF k >= width * height
        THEN [out EXCEPT !.completed = TRUE]
        ELSE Traced(traceRay(scene, textures,
                             computePrimaryRay(camera, k % width, k \div width), 0,
                             camera.eyePosition))

render(camera, scene, textures, width, height, pixels) ==
    RenderLoop(camera, scene, textures, width, height, 0,
               [pixels |-> pixels, writes |-> [i \in 1..Len(pixels) |-> 0],
                shaded |-> <<>>, completed |-> FALSE])

\* ------------------------------------------------------------------------
\* OBJLoader (objLoader.js).  The text of a file is given line by line, each
\* line split into its type and its parts: the numbers parseFloat yields for
\* a v, vn or vt record, and for an f record the index lists that
\* split('/').map(Number) yields, one per vertex reference.  A v record with
\* a coordinate that parseFloat turns into NaN has the field nan
\* ------------------------------------------------------------------------
Undefined == <<>>

\* arr[idx] of a JavaScript array held as a sequence (arr[0] is the first)
At(arr, idx) == IF idx >= 0 /\ idx < Len(arr) THEN arr[idx + 1] ELSE Undefined

\* indices[k], with undefined read as 0 (both are falsy)
IndexAt(indices, k) == IF k < Len(indices) THEN indices[k + 1] ELSE 0

\* the loop of an f record that makes a strip, not a fan: triangle i from
\* the references i, i + 1 and i + 2
RECURSIVE FaceLoopStrip(_, _, _, _)
FaceLoopStrip(acc, faceIndices, defaultColor, i) ==
    IF i >= Len(faceIndices) - 2
    THEN acc
    ELSE LET triV0 == At(acc.vertices, IndexAt(faceIndices[i + 1], 0))
             triV1 == At(acc.vertices, IndexAt(faceIndices[i + 2], 0))
             triV2 == At(acc.vertices, IndexAt(faceIndices[i + 3], 0))
         IN  IF triV0 = Undefined \/ triV1 = Undefined \/ triV2 = Undefined
             THEN [acc EXCEPT !.thrown = TRUE]
             ELSE FaceLoopStrip([acc EXCEPT !.triangles =
                                    Append(@, Triangle(triV0, triV1, triV2, defaultColor,
                                                       <<>>, <<>>, Null))],
                                faceIndices, defaultColor, i + 1)

\* the triangles of one f record from fan position i on; thrown when the
\* Triangle constructor reads a property of an undefined vertex
RECURSIVE FaceLoop(_, _, _, _)
FaceLoop(acc, faceIndices, defaultColor, i) ==
    IF i >= Len(faceIndices) - 2
    THEN acc
    ELSE LET v0Indices == faceIndices[1]
             v1Indices == faceIndices[i + 2]
             v2Indices == faceIndices[i + 3]
             triV0 == At(acc.vertices, IndexAt(v0Indices, 0))
             triV1 == At(acc.vertices, IndexAt(v1Indices, 0))
             triV2 == At(acc.vertices, IndexAt(v2Indices, 0))
             triNormals ==
                 IF IndexAt(v0Indices, 2) # 0 /\ IndexAt(v1Indices, 2) # 0
                    /\ IndexAt(v2Indices, 2) # 0 /\ Len(acc.normals) > 1
                 THEN <<At(acc.normals, IndexAt(v0Indices, 2)),
                        At(acc.normals, IndexAt(v1Indices, 2)),
                        At(acc.normals, IndexAt(v2Indices, 2))>>
                 ELSE <<>>
             triUVs ==
                 IF IndexAt(v0Indices, 1) # 0 /\ IndexAt(v1Indices, 1) # 0
                    /\ IndexAt(v2Indices, 1) # 0 /\ Len(acc.uvs) > 1
                 THEN <<At(acc.uvs, IndexAt(v0Indices, 1)),
                        At(acc.uvs, IndexAt(v1Indices, 1)),
                        At(acc.uvs, IndexAt(v2Indices, 1))>>
                 ELSE <<>>
         IN  IF triV0 = Undefined \/ triV1 = Undefined \/ triV2 = Undefined
             THEN [acc EXCEPT !.thrown = TRUE]
             ELSE FaceLoop([acc EXCEPT !.triangles =
                               Append(@, Triangle(triV0, triV1, triV2, defaultColor,
                                                  triNormals, triUVs, Null))],
                           faceIndices, defaultColor, i + 1)

RECURSIVE ParseLines(_, _, _, _)
ParseLines(acc, lines, defaultColor, k) ==
    IF k > Len(lines) \/ acc.thrown
    THEN acc
    ELSE LET type  == lines[k].type
             parts == lines[k].parts
             next  ==
                 CASE type = "v"  ->
                        [acc EXCEPT !.vertices =
                            Append(@, IF "nan" \in DOMAIN lines[k] THEN NaNVec3
                                      ELSE Vec3(parts[1], parts[2], parts[3]))]
                   [] type = "vn" ->
                        [acc EXCEPT !.normals =
                            Append(@, normalize(Vec3(parts[1], parts[2], parts[3])))]
                   [] type = "vt" ->
                        [acc EXCEPT !.uvs = Append(@, Vec3(parts[1], parts[2], 0))]
                   [] type = "f"  -> FaceLoop(acc, parts, defaultColor, 0)
                   [] OTHER -> acc
         IN  ParseLines(next, lines, defaultColor, k + 1)

\* [thrown, mesh]: mesh is <<m>> for the Mesh m returned, <<>> for null
parse(objContent, defaultColor, modelName) ==
    LET Returned(acc) ==
            IF acc.thrown THEN [thrown |-> TRUE, mesh |-> <<>>]
            ELSE IF Len(acc.triangles) = 0 THEN [thrown |-> FALSE, mesh |-> <<>>]
            ELSE [thrown |-> FALSE,
                  mesh |-> <<Mesh(acc.triangles, defaultColor, modelName, Null,
                                  Vec3(0, 0, 0), 0, 0)>>]
    IN  Returned(ParseLines([vertices |-> <<Vec3(0, 0, 0)>>, normals |-> <<Vec3(0, 0, 0)>>,
                             uvs |-> <<Vec3(0, 0, 0)>>, triangles |-> <<>>,
                             thrown |-> FALSE],
                            objContent, defaultColor, 1))

\* ------------------------------------------------------------------------
\* Conversions of main.js and ui.js
\* ------------------------------------------------------------------------
\* Vec3.fromHexString of the color string whose three bytes are rgb
fromHexString(rgb) ==
    Vec3(Quot(rgb[1] * Unit, 255), Quot(rgb[2] * Unit, 255), Quot(rgb[3] * Unit, 255))

\* parseFloat(x.toFixed(digits)): x rounded to that many decimals
ToFixed(x, digits) ==
    LET step == Unit \div 10^digits
    IN  Quot(x, step) * step

\* ------------------------------------------------------------------------
\* The application (main.js)
\* ------------------------------------------------------------------------
\* size of the canvas in pixels
CANVAS_WIDTH == 3
CANVAS_HEIGHT == 3

CAMERA_SENSITIVITY == Lit(1, 10)

\* how many texture loads and model loads a run starts
MaxTextureLoads == 2
MaxModelLoads == 2
\* cameraYaw is explored up to this many degrees either way
MaxYaw == 90

VARIABLES
    camera,              \* the Camera
    cameraYaw, cameraPitch, cameraRadius,
    isRotating, firstMouse,
    controls,            \* values of the five camera sliders
    ui,                  \* text of the model and texture file name displays
    heap,                \* the primitives that exist, by identity
    scene,               \* objects (identities in insertion order), lights, background
    textures,            \* TextureManager.textures
    selectedObject,      \* identity of the selected primitive, 0 for null
    selectedObjectIndex,
    pixels,              \* Raytracer.pixels
    modelReaders,        \* FileReaders of model loads: file and stage
    textureLoads,        \* loadImage calls: file and stage, with the primitive
                         \* selected when onchange ran (target) and how the
                         \* handler ended (outcome), both kept for the properties
    microtask,           \* settled loadImage promise whose await has not resumed
    lastRender,          \* record of the most recent call of render
    lastPick,            \* record of the call of pickObject the most recent
                         \* task made, NoPick when it made none
    basisLog,            \* bases left by the constructor and updateBasis calls
                         \* of the most recent task
    input, output        \* arguments and results of a direct call of a
                         \* Scene method

vars == <<camera, cameraYaw, cameraPitch, cameraRadius, isRotating, firstMouse,
          controls, ui, heap, scene, textures, selectedObject, selectedObjectIndex,
          pixels, modelReaders, textureLoads, microtask, lastRender, lastPick,
          basisLog, input, output>>

cameraVars == <<camera, cameraYaw, cameraPitch, cameraRadius, isRotating,
                firstMouse, controls>>
loadVars == <<modelReaders, textureLoads, microtask>>
probeVars == <<input, output>>

NoTask == [kind |-> "none"]

NoPick == [kind |-> "none"]

NoCall == [kind |-> "none"]

\* the scene with each identity replaced by the primitive it names
SceneOf(hp, sc) ==
    [objects |-> [k \in 1..Len(sc.objects) |-> hp[sc.objects[k]]],
     lights |-> sc.lights, backgroundColor |-> sc.backgroundColor]

Basis(cam) == [u |-> cam.u, v |-> cam.v, w |-> cam.w]

updateCameraPositionFromOrbit(cam, yaw, pitch, radius) ==
    LET yawRad   == Div(Mul(yaw, MathPI), 180 * Unit)
        pitchRad == Div(Mul(pitch, MathPI), 180 * Unit)
        eye == Vec3(Mul(Mul(radius, MathCos(yawRad)), MathCos(pitchRad)),
                    Mul(radius, MathSin(pitchRad)),
                    Mul(Mul(radius, MathSin(yawRad)), MathCos(pitchRad)))
    IN  [cam EXCEPT !.eyePosition = add(eye, cam.lookAt)]

\* the slider values UIManager.updateCameraValues writes
updateCameraValues(lookAt, fov, orbitRadius) ==
    [lookAtX |-> ToFixed(lookAt.x, 2), lookAtY |-> ToFixed(lookAt.y, 2),
     lookAtZ |-> ToFixed(lookAt.z, 2), fov |-> ToFixed(fov, 1),
     orbitRadius |-> ToFixed(orbitRadius, 1)]

\* obj.textureName || 'No texture applied'
TextureNameOf(obj) ==
    IF obj.textureName # Null /\ obj.textureName # ""
    THEN obj.textureName ELSE "No texture applied"

\* main.js render(): the call of Raytracer.render with what it leaves behind
RenderStep(cam, sc, hp, tex) ==
    /\ lastRender' = [result |-> render(cam, SceneOf(hp, sc), tex, CANVAS_WIDTH,
                                        CANVAS_HEIGHT, pixels),
                      camera |-> cam, scene |-> SceneOf(hp, sc), textures |-> tex]
    /\ pixels' = lastRender'.result.pixels

\* init(): the scene it builds
InitHeap ==
    <<Plane(Vec3(0, -Unit, 0), Vec3(0, Unit, 0), Vec3(Lit(8, 10), Lit(8, 10), Lit(8, 10)),
            "checkerboard.png", Lit(5, 10)),
      Sphere(Vec3(0, Lit(5, 10), 0), Unit, Vec3(Unit, 0, 0), Null),
      Sphere(Vec3(Lit(18, 10), 0, -Lit(15, 10)), Lit(6, 10), Vec3(0, Lit(5, 10), 0), Null),
      Sphere(Vec3(-Lit(15, 10), Unit, Lit(8, 10)), Lit(7, 10), Vec3(0, 0, Unit), Null),
      Sphere(Vec3(-2 * Unit, 0, -Lit(5, 10)), Lit(4, 10), Vec3(Unit, Unit, 0), Null)>>

InitScene ==
    [objects |-> <<1, 2, 3, 4, 5>>,
     lights |-> <<Light(Vec3(6 * Unit, 6 * Unit, 6 * Unit), Vec3(Unit, Unit, Unit)),
                  Light(Vec3(-6 * Unit, 4 * Unit, 3 * Unit),
                        Vec3(Lit(5, 10), Lit(8, 10), Unit))>>,
     backgroundColor |-> Vec3(Lit(1, 10), Lit(1, 10), Lit(2, 10))]

\* the camera as the constructor leaves it, and as init leaves it
ConstructedCamera ==
    Camera(Vec3(0, 0, 0), Vec3(0, 0, 0), Vec3(0, Unit, 0), 75 * Unit,
           CANVAS_WIDTH, CANVAS_HEIGHT)

InitCamera ==
    updateBasis(updateCameraPositionFromOrbit(ConstructedCamera, -90 * Unit, 0, 6 * Unit))

InitApp ==
    /\ camera = InitCamera
    /\ cameraYaw = -90 * Unit
    /\ cameraPitch = 0
    /\ cameraRadius = 6 * Unit
    /\ isRotating = FALSE
    /\ firstMouse = TRUE
    /\ controls = updateCameraValues(InitCamera.lookAt, InitCamera.fov, 6 * Unit)
    /\ ui = [modelFileName |-> "No model loaded", textureFileName |-> "No texture applied"]
    /\ heap = InitHeap
    /\ scene = InitScene
    /\ textures = {}
    /\ selectedObject = 0
    /\ selectedObjectIndex = -1
    /\ lastRender = [result |-> render(InitCamera, SceneOf(InitHeap, InitScene), {},
                                       CANVAS_WIDTH, CANVAS_HEIGHT,
                                       [i \in 1..(CANVAS_WIDTH * CANVAS_HEIGHT * 4) |-> 0]),
                     camera |-> InitCamera, scene |-> SceneOf(InitHeap, InitScene),
                     textures |-> {}]
    /\ pixels = lastRender.result.pixels
    /\ lastPick = NoPick
    /\ modelReaders = <<>>
    /\ textureLoads = <<>>
    /\ microtask = NoTask
    /\ basisLog = <<Basis(ConstructedCamera), Basis(InitCamera)>>

Init ==
    /\ InitApp
    /\ input = NoCall
    /\ output = NoCall

\* ------------------------------------------------------------------------
\* Camera handlers.  Every handler is a task; no task starts while the
\* continuation of an await is due
\* ------------------------------------------------------------------------
\* oninput of a camera slider the user has set to value
updateCameraFromUI(slider, value) ==
    /\ microtask = NoTask
    /\ cameraRadius' = IF slider = "orbitRadius" THEN value ELSE controls.orbitRadius
    /\ camera' = updateBasis(updateCameraPositionFromOrbit(
                     [camera EXCEPT
                         !.lookAt = Vec3(IF slider = "lookAtX" THEN value ELSE controls.lookAtX,
                                         IF slider = "lookAtY" THEN value ELSE controls.lookAtY,
                                         IF slider = "lookAtZ" THEN value ELSE controls.lookAtZ),
                         !.fov = IF slider = "fov" THEN value ELSE controls.fov],
                     cameraYaw, cameraPitch, cameraRadius'))
    /\ basisLog' = <<Basis(camera')>>
    /\ controls' = updateCameraValues(camera'.lookAt, camera'.fov, cameraRadius')
    /\ RenderStep(camera', scene, heap, textures)
    /\ lastPick' = NoPick
    /\ UNCHANGED <<cameraYaw, cameraPitch, isRotating, firstMouse, ui, heap, scene,
                   textures, selectedObject, selectedObjectIndex>>
    /\ UNCHANGED loadVars
    /\ UNCHANGED probeVars

\* scene.objects.find(obj => obj instanceof Plane): its identity, 0 for
\* undefined
RECURSIVE FindPlane(_, _, _)
FindPlane(hp, objects, k) ==
    IF k > Len(objects) THEN 0
    ELSE IF hp[objects[k]].kind = "Plane" THEN objects[k]
    ELSE FindPlane(hp, objects, k + 1)

\* the mousedown that selects whatever primitive was hit, the ground plane
\* included
onMouseDownAnyPrimitive(button, pixelX, pixelY) ==
    /\ microtask = NoTask
    /\ IF button = 2
       THEN /\ isRotating' = TRUE
            /\ firstMouse' = TRUE
            /\ lastPick' = NoPick
            /\ UNCHANGED <<ui, selectedObject, selectedObjectIndex, pixels, lastRender>>
       ELSE /\ lastPick' = [kind |-> "pick", camera |-> camera,
                            scene |-> SceneOf(heap, scene),
                            pixelX |-> pixelX, pixelY |-> pixelY,
                            hitResult |-> pickObject(camera, SceneOf(heap, scene),
                                                     pixelX, pixelY)]
            /\ selectedObject' =
                   IF lastPick'.hitResult.object # 0
                   THEN scene.objects[lastPick'.hitResult.object]
                   ELSE 0
            /\ selectedObjectIndex' =
                   IF selectedObject' # 0 THEN lastPick'.hitResult.object - 1 ELSE -1
            /\ ui' = [ui EXCEPT !.textureFileName =
                         IF selectedObject' # 0 THEN TextureNameOf(heap[selectedObject'])
                         ELSE "No texture applied"]
            /\ RenderStep(camera, scene, heap, textures)
            /\ UNCHANGED <<isRotating, firstMouse>>
    /\ UNCHANGED <<camera, cameraYaw, cameraPitch, cameraRadius, controls, heap, scene,
                   textures, basisLog>>
    /\ UNCHANGED loadVars
    /\ UNCHANGED probeVars

\* mousedown with the right button (2), or with the left button (0) on
\* canvas pixel (pixelX, pixelY)
onMouseDown(button, pixelX, pixelY) ==
    /\ microtask = NoTask
    /\ IF button = 2
       THEN /\ isRotating' = TRUE
            /\ firstMouse' = TRUE
            /\ lastPick' = NoPick
            /\ UNCHANGED <<ui, selectedObject, selectedObjectIndex, pixels, lastRender>>
       ELSE /\ lastPick' = [kind |-> "pick", camera |-> camera,
                            scene |-> SceneOf(heap, scene),
                            pixelX |-> pixelX, pixelY |-> pixelY,
                            hitResult |-> pickObject(camera, SceneOf(heap, scene),
                                                     pixelX, pixelY)]
            /\ selectedObject' =
                   IF lastPick'.hitResult.object # 0
                      /\ scene.objects[lastPick'.hitResult.object]
                             # FindPlane(heap, scene.objects, 1)
                   THEN scene.objects[lastPick'.hitResult.object]
                   ELSE 0
            /\ selectedObjectIndex' =
                   IF selectedObject' # 0 THEN lastPick'.hitResult.object - 1 ELSE -1
            /\ ui' = [ui EXCEPT !.textureFileName =
                         IF selectedObject' # 0 THEN TextureNameOf(heap[selectedObject'])
                         ELSE "No texture applied"]
            /\ RenderStep(camera, scene, heap, textures)
            /\ UNCHANGED <<isRotating, firstMouse>>
    /\ UNCHANGED <<camera, cameraYaw, cameraPitch, cameraRadius, controls, heap, scene,
                   textures, basisLog>>
    /\ UNCHANGED loadVars
    /\ UNCHANGED probeVars

\* mouseup with the right button
onMouseUp ==
    /\ microtask = NoTask
    /\ isRotating' = FALSE
    /\ lastPick' = NoPick
    /\ UNCHANGED <<camera, cameraYaw, cameraPitch, cameraRadius, firstMouse, controls,
                   ui, heap, scene, textures, selectedObject, selectedObjectIndex,
                   pixels, lastRender, basisLog>>
    /\ UNCHANGED loadVars
    /\ UNCHANGED probeVars

\* mousemove that moves the eye and leaves u, v, w as they were
onMouseMoveStale(movementX, movementY) ==
    /\ microtask = NoTask
    /\ isRotating
    /\ Abs(cameraYaw + movementX * CAMERA_SENSITIVITY) <= MaxYaw * Unit
    /\ cameraYaw' = cameraYaw + movementX * CAMERA_SENSITIVITY
    /\ cameraPitch' = Max(-89 * Unit,
                          Min(89 * Unit, cameraPitch - movementY * CAMERA_SENSITIVITY))
    /\ camera' = updateCameraPositionFromOrbit(camera, cameraYaw', cameraPitch',
                                               cameraRadius)
    /\ basisLog' = <<Basis(camera')>>
    /\ RenderStep(camera', scene, heap, textures)
    /\ lastPick' = NoPick
    /\ UNCHANGED <<cameraRadius, isRotating, firstMouse, controls, ui, heap, scene,
                   textures, selectedObject, selectedObjectIndex>>
    /\ UNCHANGED loadVars
    /\ UNCHANGED probeVars

\* mousemove by (movementX, movementY) pixels while the orbit is on; the
\* yaw is explored up to MaxYaw degrees either way
onMouseMove(movementX, movementY) ==
    /\ microtask = NoTask
    /\ isRotating
    /\ Abs(cameraYaw + movementX * CAMERA_SENSITIVITY) <= MaxYaw * Unit
    /\ cameraYaw' = cameraYaw + movementX * CAMERA_SENSITIVITY
    /\ cameraPitch' = Max(-89 * Unit,
                          Min(89 * Unit, cameraPitch - movementY * CAMERA_SENSITIVITY))
    /\ camera' = updateBasis(updateCameraPositionFromOrbit(camera, cameraYaw',
                                                           cameraPitch', cameraRadius))
    /\ basisLog' = <<Basis(camera')>>
    /\ RenderStep(camera', scene, heap, textures)
    /\ lastPick' = NoPick
    /\ UNCHANGED <<cameraRadius, isRotating, firstMouse, controls, ui, heap, scene,
                   textures, selectedObject, selectedObjectIndex>>
    /\ UNCHANGED loadVars
    /\ UNCHANGED probeVars

\* the wheel handler without its two bounds on cameraRadius
onMouseWheelUnclamped(deltaY) ==
    /\ microtask = NoTask
    /\ cameraRadius' = cameraRadius - Quot(deltaY * Unit, 100)
    /\ camera' = updateBasis(updateCameraPositionFromOrbit(camera, cameraYaw,
                                                           cameraPitch, cameraRadius'))
    /\ basisLog' = <<Basis(camera')>>
    /\ controls' = [controls EXCEPT !.orbitRadius = ToFixed(cameraRadius', 1)]
    /\ RenderStep(camera', scene, heap, textures)
    /\ lastPick' = NoPick
    /\ UNCHANGED <<cameraYaw, cameraPitch, isRotating, firstMouse, ui, heap, scene,
                   textures, selectedObject, selectedObjectIndex>>
    /\ UNCHANGED loadVars
    /\ UNCHANGED probeVars

\* wheel event of event.deltaY = deltaY
onMouseWheel(deltaY) ==
    /\ microtask = NoTask
    /\ cameraRadius' = Min(20 * Unit, Max(Unit, cameraRadius - Quot(deltaY * Unit, 100)))
    /\ camera' = updateBasis(updateCameraPositionFromOrbit(camera, cameraYaw,
                                                           cameraPitch, cameraRadius'))
    /\ basisLog' = <<Basis(camera')>>
    /\ controls' = [controls EXCEPT !.orbitRadius = ToFixed(cameraRadius', 1)]
    /\ RenderStep(camera', scene, heap, textures)
    /\ lastPick' = NoPick
    /\ UNCHANGED <<cameraYaw, cameraPitch, isRotating, firstMouse, ui, heap, scene,
                   textures, selectedObject, selectedObjectIndex>>
    /\ UNCHANGED loadVars
    /\ UNCHANGED probeVars

\* ------------------------------------------------------------------------
\* Material handlers
\* ------------------------------------------------------------------------
\* oninput of the diffuse color picker set to the color of bytes rgb
objectColorInput(rgb) ==
    /\ microtask = NoTask
    /\ IF selectedObject # 0
       THEN /\ heap' = [heap EXCEPT ![selectedObject].color = fromHexString(rgb)]
            /\ RenderStep(camera, scene, heap', textures)
       ELSE UNCHANGED <<heap, pixels, lastRender>>
    /\ UNCHANGED <<ui, scene, textures, selectedObject, selectedObjectIndex,
                   basisLog>>
    /\ UNCHANGED cameraVars
    /\ UNCHANGED loadVars
    /\ lastPick' = NoPick
    /\ UNCHANGED probeVars

specularColorInput(rgb) ==
    /\ microtask = NoTask
    /\ IF selectedObject # 0
       THEN /\ heap' = [heap EXCEPT ![selectedObject].specularColor = fromHexString(rgb)]
            /\ RenderStep(camera, scene, heap', textures)
       ELSE UNCHANGED <<heap, pixels, lastRender>>
    /\ UNCHANGED <<ui, scene, textures, selectedObject, selectedObjectIndex,
                   basisLog>>
    /\ UNCHANGED cameraVars
    /\ UNCHANGED loadVars
    /\ lastPick' = NoPick
    /\ UNCHANGED probeVars

\* oninput of the shininess slider set to value
shininessInput(value) ==
    /\ microtask = NoTask
    /\ IF selectedObject # 0
       THEN /\ heap' = [heap EXCEPT ![selectedObject].shininess = value]
            /\ RenderStep(camera, scene, heap', textures)
       ELSE UNCHANGED <<heap, pixels, lastRender>>
    /\ UNCHANGED <<ui, scene, textures, selectedObject, selectedObjectIndex,
                   basisLog>>
    /\ UNCHANGED cameraVars
    /\ UNCHANGED loadVars
    /\ lastPick' = NoPick
    /\ UNCHANGED probeVars

reflectivityInput(value) ==
    /\ microtask = NoTask
    /\ IF selectedObject # 0
       THEN /\ heap' = [heap EXCEPT ![selectedObject].reflectivity = value]
            /\ RenderStep(camera, scene, heap', textures)
       ELSE UNCHANGED <<heap, pixels, lastRender>>
    /\ UNCHANGED <<ui, scene, textures, selectedObject, selectedObjectIndex,
                   basisLog>>
    /\ UNCHANGED cameraVars
    /\ UNCHANGED loadVars
    /\ lastPick' = NoPick
    /\ UNCHANGED probeVars

\* ------------------------------------------------------------------------
\* Model loading
\* ------------------------------------------------------------------------
\* v records of a triangle in front of the first sphere
TriangleVertices ==
    <<[type |-> "v", parts |-> <<-Unit, -Lit(5, 10), -2 * Unit>>],
      [type |-> "v", parts |-> <<Unit, -Lit(5, 10), -2 * Unit>>],
      [type |-> "v", parts |-> <<0, Unit, -2 * Unit>>]>>

\* the files a user picks: one triangle; no face; a face that names a
\* vertex the file does not define
ModelFiles ==
    {[name |-> "tri.obj",
      content |-> TriangleVertices \o <<[type |-> "f", parts |-> <<<<1>>, <<2>>, <<3>>>>]>>],
     [name |-> "empty.obj", content |-> TriangleVertices],
     [name |-> "bad.obj",
      content |-> TriangleVertices \o <<[type |-> "f", parts |-> <<<<1>>, <<2>>, <<7>>>>]>>]}

\* the filter that keeps every object, the meshes included
FilterPrimitivesKeepAll(hp, objects) ==
    objects

\* scene.objects.filter(obj => obj instanceof Plane || obj instanceof Sphere)
FilterPrimitives(hp, objects) ==
    SelectSeq(objects, LAMBDA id : hp[id].kind \in {"Plane", "Sphere"})

\* onchange of the model file input with a file chosen: a FileReader starts
modelFileChange(file) ==
    /\ microtask = NoTask
    /\ Len(modelReaders) < MaxModelLoads
    /\ modelReaders' = Append(modelReaders, [file |-> file, stage |-> "reading"])
    /\ UNCHANGED <<ui, heap, scene, textures, selectedObject, selectedObjectIndex,
                   pixels, textureLoads, microtask, lastRender, basisLog>>
    /\ UNCHANGED cameraVars
    /\ lastPick' = NoPick
    /\ UNCHANGED probeVars

\* reader.onload that drops the meshes of the scene before it looks at what
\* parse returned
modelReaderLoadFilterFirst(k) ==
    /\ microtask = NoTask
    /\ k \in 1..Len(modelReaders)
    /\ modelReaders[k].stage = "reading"
    /\ modelReaders' = [modelReaders EXCEPT ![k].stage = "loaded"]
    /\ LET file == modelReaders[k].file
           parsed == parse(file.content, Vec3(Lit(5, 10), Lit(7, 10), Unit), file.name)
           id == Len(heap) + 1
           kept == FilterPrimitives(heap, scene.objects)
       IN  IF parsed.thrown
           THEN /\ ui' = [ui EXCEPT !.modelFileName = "Error loading"]
                /\ scene' = [scene EXCEPT !.objects = kept]
                /\ UNCHANGED <<heap, selectedObject>>
           ELSE IF parsed.mesh # <<>>
           THEN /\ heap' = Append(heap, parsed.mesh[1])
                /\ scene' = [scene EXCEPT !.objects = Append(kept, id)]
                /\ selectedObject' = id
                /\ ui' = [modelFileName |-> file.name,
                          textureFileName |-> TextureNameOf(parsed.mesh[1])]
           ELSE /\ ui' = [ui EXCEPT !.modelFileName = "Failed to load"]
                /\ scene' = [scene EXCEPT !.objects = kept]
                /\ UNCHANGED <<heap, selectedObject>>
    /\ RenderStep(camera, scene', heap', textures)
    /\ UNCHANGED <<textures, selectedObjectIndex, textureLoads, microtask,
                   basisLog>>
    /\ UNCHANGED cameraVars
    /\ lastPick' = NoPick
    /\ UNCHANGED probeVars

\* reader.onload of model load k
modelReaderLoad(k) ==
    /\ microtask = NoTask
    /\ k \in 1..Len(modelReaders)
    /\ modelReaders[k].stage = "reading"
    /\ modelReaders' = [modelReaders EXCEPT ![k].stage = "loaded"]
    /\ LET file == modelReaders[k].file
           parsed == parse(file.content, Vec3(Lit(5, 10), Lit(7, 10), Unit), file.name)
           id == Len(heap) + 1
       IN  IF parsed.thrown
           THEN /\ ui' = [ui EXCEPT !.modelFileName = "Error loading"]
                /\ UNCHANGED <<heap, scene, selectedObject>>
           ELSE IF parsed.mesh # <<>>
           THEN /\ heap' = Append(heap, parsed.mesh[1])
                /\ scene' = [scene EXCEPT
                                !.objects = Append(FilterPrimitives(heap, scene.objects), id)]
                /\ selectedObject' = id
                /\ ui' = [modelFileName |-> file.name,
                          textureFileName |-> TextureNameOf(parsed.mesh[1])]
           ELSE /\ ui' = [ui EXCEPT !.modelFileName = "Failed to load"]
                /\ UNCHANGED <<heap, scene, selectedObject>>
    /\ RenderStep(camera, scene', heap', textures)
    /\ UNCHANGED <<textures, selectedObjectIndex, textureLoads, microtask,
                   basisLog>>
    /\ UNCHANGED cameraVars
    /\ lastPick' = NoPick
    /\ UNCHANGED probeVars

\* reader.onerror of model load k
modelReaderError(k) ==
    /\ microtask = NoTask
    /\ k \in 1..Len(modelReaders)
    /\ modelReaders[k].stage = "reading"
    /\ modelReaders' = [modelReaders EXCEPT ![k].stage = "failed"]
    /\ ui' = [ui EXCEPT !.modelFileName = "Read error"]
    /\ UNCHANGED <<heap, scene, textures, selectedObject, selectedObjectIndex, pixels,
                   textureLoads, microtask, lastRender, basisLog>>
    /\ UNCHANGED cameraVars
    /\ lastPick' = NoPick
    /\ UNCHANGED probeVars

\* ------------------------------------------------------------------------
\* Texture loading
\* ------------------------------------------------------------------------
\* the image files a user picks: name, and size and RGBA bytes once decoded
TextureFiles ==
    {[name |-> "a.png", width |-> 2, height |-> 1,
      data |-> <<0, 255, 0, 255, 0, 0, 255, 255>>]}

NoFile == [name |-> ""]

\* onchange of the texture file input, up to the await of loadImage; file
\* is NoFile when event.target.files is empty
textureFileChange(file) ==
    /\ microtask = NoTask
    /\ IF file # NoFile /\ selectedObject # 0
       THEN /\ Len(textureLoads) < MaxTextureLoads
            /\ ui' = [ui EXCEPT !.textureFileName = "Loading..."]
            /\ textureLoads' = Append(textureLoads,
                                      [file |-> file, stage |-> "reading",
                                       target |-> selectedObject, outcome |-> "pending"])
       ELSE /\ ui' = [ui EXCEPT !.textureFileName =
                         IF selectedObject = 0 THEN "No object selected"
                         ELSE "No file chosen"]
            /\ UNCHANGED textureLoads
    /\ UNCHANGED <<heap, scene, textures, selectedObject, selectedObjectIndex, pixels,
                   modelReaders, microtask, lastRender, basisLog>>
    /\ UNCHANGED cameraVars
    /\ lastPick' = NoPick
    /\ UNCHANGED probeVars

\* reader.onload of texture load k: the image starts to decode
textureReaderLoad(k) ==
    /\ microtask = NoTask
    /\ k \in 1..Len(textureLoads)
    /\ textureLoads[k].stage = "reading"
    /\ textureLoads' = [textureLoads EXCEPT ![k].stage = "decoding"]
    /\ UNCHANGED <<ui, heap, scene, textures, selectedObject, selectedObjectIndex,
                   pixels, modelReaders, microtask, lastRender, basisLog>>
    /\ UNCHANGED cameraVars
    /\ lastPick' = NoPick
    /\ UNCHANGED probeVars

\* reader.onerror of texture load k: the promise is rejected
textureReaderError(k) ==
    /\ microtask = NoTask
    /\ k \in 1..Len(textureLoads)
    /\ textureLoads[k].stage = "reading"
    /\ textureLoads' = [textureLoads EXCEPT ![k].stage = "rejected"]
    /\ microtask' = [kind |-> "rejected", load |-> k]
    /\ UNCHANGED <<ui, heap, scene, textures, selectedObject, selectedObjectIndex,
                   pixels, modelReaders, lastRender, basisLog>>
    /\ UNCHANGED cameraVars
    /\ lastPick' = NoPick
    /\ UNCHANGED probeVars

\* img.onload that resolves the promise before the entry is in the Map
imgLoadUnstored(k, hasContext) ==
    /\ microtask = NoTask
    /\ k \in 1..Len(textureLoads)
    /\ textureLoads[k].stage = "decoding"
    /\ IF hasContext
       THEN /\ textureLoads' = [textureLoads EXCEPT ![k].stage = "resolved"]
            /\ microtask' = [kind |-> "resolved", load |-> k]
       ELSE /\ textureLoads' = [textureLoads EXCEPT ![k].stage = "rejected"]
            /\ microtask' = [kind |-> "rejected", load |-> k]
    /\ UNCHANGED <<ui, heap, scene, textures, selectedObject, selectedObjectIndex,
                   pixels, modelReaders, lastRender, basisLog>>
    /\ UNCHANGED cameraVars
    /\ lastPick' = NoPick
    /\ UNCHANGED probeVars

\* img.onload of texture load k; hasContext is whether getContext('2d')
\* of the temporary canvas returns a context
imgLoad(k, hasContext) ==
    /\ microtask = NoTask
    /\ k \in 1..Len(textureLoads)
    /\ textureLoads[k].stage = "decoding"
    /\ LET file == textureLoads[k].file
       IN  IF hasContext
           THEN /\ textures' = setTexture(textures,
                                   [id |-> file.name, width |-> file.width,
                                    height |-> file.height, data |-> file.data])
                /\ textureLoads' = [textureLoads EXCEPT ![k].stage = "resolved"]
                /\ microtask' = [kind |-> "resolved", load |-> k]
           ELSE /\ textureLoads' = [textureLoads EXCEPT ![k].stage = "rejected"]
                /\ microtask' = [kind |-> "rejected", load |-> k]
                /\ UNCHANGED textures
    /\ UNCHANGED <<ui, heap, scene, selectedObject, selectedObjectIndex, pixels,
                   modelReaders, lastRender, basisLog>>
    /\ UNCHANGED cameraVars
    /\ lastPick' = NoPick
    /\ UNCHANGED probeVars

\* img.onerror of texture load k: the promise is rejected
imgError(k) ==
    /\ microtask = NoTask
    /\ k \in 1..Len(textureLoads)
    /\ textureLoads[k].stage = "decoding"
    /\ textureLoads' = [textureLoads EXCEPT ![k].stage = "rejected"]
    /\ microtask' = [kind |-> "rejected", load |-> k]
    /\ UNCHANGED <<ui, heap, scene, textures, selectedObject, selectedObjectIndex,
                   pixels, modelReaders, lastRender, basisLog>>
    /\ UNCHANGED cameraVars
    /\ lastPick' = NoPick
    /\ UNCHANGED probeVars

\* the continuation with render() called before the texture is assigned
textureContinuationRenderFirst ==
    /\ microtask # NoTask
    /\ microtask' = NoTask
    /\ LET file == textureLoads[microtask.load].file
       IN  IF microtask.kind = "resolved" /\ selectedObject # 0
           THEN /\ heap' = [heap EXCEPT ![selectedObject].textureId = file.name,
                                        ![selectedObject].textureName = file.name]
                /\ ui' = [ui EXCEPT !.textureFileName = file.name]
                /\ RenderStep(camera, scene, heap, textures)
           ELSE /\ ui' = [ui EXCEPT !.textureFileName = "Error loading"]
                /\ IF selectedObject # 0
                   THEN /\ heap' = [heap EXCEPT ![selectedObject].textureId = Null]
                        /\ RenderStep(camera, scene, heap, textures)
                   ELSE UNCHANGED <<heap, pixels, lastRender>>
    /\ textureLoads' =
           [textureLoads EXCEPT ![microtask.load].outcome =
               IF selectedObject = 0 THEN "uncaught"
               ELSE IF microtask.kind = "resolved" THEN "applied" ELSE "failed"]
    /\ UNCHANGED <<scene, textures, selectedObject, selectedObjectIndex, modelReaders,
                   basisLog>>
    /\ UNCHANGED cameraVars
    /\ lastPick' = NoPick
    /\ UNCHANGED probeVars

\* the rest of textureFileInput.onchange, after the await.  selectedObject
\* is the module variable as it is now.  An assignment to a property of
\* null throws: in the try block it enters the catch block, in the catch
\* block it ends the handler before render, with a TypeError that nothing
\* catches (outcome "uncaught")
textureContinuation ==
    /\ microtask # NoTask
    /\ microtask' = NoTask
    /\ LET file == textureLoads[microtask.load].file
       IN  IF microtask.kind = "resolved" /\ selectedObject # 0
           THEN /\ heap' = [heap EXCEPT ![selectedObject].textureId = file.name,
                                        ![selectedObject].textureName = file.name]
                /\ ui' = [ui EXCEPT !.textureFileName = file.name]
                /\ RenderStep(camera, scene, heap', textures)
           ELSE /\ ui' = [ui EXCEPT !.textureFileName = "Error loading"]
                /\ IF selectedObject # 0
                   THEN /\ heap' = [heap EXCEPT ![selectedObject].textureId = Null]
                        /\ RenderStep(camera, scene, heap', textures)
                   ELSE UNCHANGED <<heap, pixels, lastRender>>
    /\ textureLoads' =
           [textureLoads EXCEPT ![microtask.load].outcome =
               IF selectedObject = 0 THEN "uncaught"
               ELSE IF microtask.kind = "resolved" THEN "applied" ELSE "failed"]
    /\ UNCHANGED <<scene, textures, selectedObject, selectedObjectIndex, modelReaders,
                   basisLog>>
    /\ UNCHANGED cameraVars
    /\ lastPick' = NoPick
    /\ UNCHANGED probeVars

\* ------------------------------------------------------------------------
\* Direct calls of Scene.trace and Scene.isInShadow
\* ------------------------------------------------------------------------
\* primitives to build scenes of: two spheres of the same geometry, a
\* sphere behind them, a floor, and a mesh of one triangle in front
TestPrimitives ==
    {Sphere(Vec3(0, 0, 0), Unit, Vec3(Unit, 0, 0), Null),
     Sphere(Vec3(0, 0, 0), Unit, Vec3(0, Unit, 0), Null),
     Sphere(Vec3(0, 0, -3 * Unit), Unit, Vec3(0, 0, Unit), Null),
     Plane(Vec3(0, -Unit, 0), Vec3(0, Unit, 0), Vec3(Unit, Unit, Unit), Null, Unit),
     Mesh(<<Triangle(Vec3(-2 * Unit, -2 * Unit, 2 * Unit), Vec3(2 * Unit, -2 * Unit, 2 * Unit),
                     Vec3(0, 3 * Unit, 2 * Unit), Vec3(Unit, Unit, 0), <<>>, <<>>, Null)>>,
          Vec3(Unit, Unit, 0), "m", Null, Vec3(0, 0, 0), 0, 0)}

\* how many primitives a scene of a direct call holds at most
MaxObjects == 3

\* the sequences of distinct primitives
TestObjects ==
    {objs \in UNION {[1..n -> TestPrimitives] : n \in 0..MaxObjects} :
        \A i, j \in DOMAIN objs : i # j => objs[i] # objs[j]}

\* a ray for trace, and a point and a light for isInShadow
TestCalls ==
    {[ray |-> Ray(Vec3(0, 0, 5 * Unit), Vec3(0, 0, -Unit)),
      point |-> Vec3(0, 0, 5 * Unit),
      light |-> Light(Vec3(0, 0, -8 * Unit), Vec3(Unit, Unit, Unit))],
     [ray |-> Ray(Vec3(0, 5 * Unit, 0), Vec3(0, -Unit, 0)),
      point |-> Vec3(0, 0, 5 * Unit),
      light |-> Light(Vec3(0, 0, 3 * Unit), Vec3(Unit, Unit, Unit))],
     [ray |-> Ray(Vec3(0, 0, 5 * Unit), Vec3(0, 0, Unit)),
      point |-> Vec3(0, 5 * Unit, 0),
      light |-> Light(Vec3(0, -6 * Unit, 0), Vec3(Unit, Unit, Unit))]}

InitTrace ==
    /\ InitApp
    /\ \E objs \in TestObjects, call \in TestCalls :
           input = [kind |-> "call",
                    scene |-> [objects |-> objs, lights |-> <<call.light>>,
                               backgroundColor |-> Vec3(0, 0, 0)],
                    ray |-> call.ray, point |-> call.point, light |-> call.light]
    /\ output = NoCall

appVars == <<camera, cameraYaw, cameraPitch, cameraRadius, isRotating, firstMouse,
             controls, ui, heap, scene, textures, selectedObject, selectedObjectIndex,
             pixels, modelReaders, textureLoads, microtask, lastRender, lastPick,
             basisLog>>

\* a trace that takes the primitive it hits out of scene.objects
callTraceConsuming ==
    /\ input # NoCall
    /\ output' = [kind |-> "trace", result |-> trace(input.scene, input.ray)]
    /\ input' = [input EXCEPT !.scene.objects =
                    SelectSeq(@, LAMBDA o :
                        output'.result.object = 0
                        \/ o # input.scene.objects[output'.result.object])]
    /\ UNCHANGED appVars

\* input.scene.trace(input.ray)
callTrace ==
    /\ input # NoCall
    /\ output' = [kind |-> "trace", result |-> trace(input.scene, input.ray)]
    /\ UNCHANGED input
    /\ UNCHANGED appVars

\* input.scene.isInShadow(input.point, input.light)
callIsInShadow ==
    /\ input # NoCall
    /\ output' = [kind |-> "isInShadow",
                  result |-> isInShadow(input.scene, input.point, input.light)]
    /\ UNCHANGED input
    /\ UNCHANGED appVars

NextTrace == callTrace \/ callIsInShadow

SpecTrace == InitTrace /\ [][NextTrace]_vars

\* ------------------------------------------------------------------------
\* Direct calls of intersect
\* ------------------------------------------------------------------------
\* the primitives of the direct calls of Scene methods, and a triangle and
\* a mesh whose triangle has per-vertex normals
HitPrimitives ==
    TestPrimitives
    \cup {Triangle(Vec3(-2 * Unit, -2 * Unit, 2 * Unit), Vec3(2 * Unit, -2 * Unit, 2 * Unit),
                   Vec3(0, 3 * Unit, 2 * Unit), Vec3(Unit, Unit, 0),
                   <<Vec3(0, 0, Unit), Vec3(0, 0, Unit), Vec3(0, 0, Unit)>>, <<>>, Null),
          Mesh(<<Triangle(Vec3(-2 * Unit, -2 * Unit, -2 * Unit),
                          Vec3(2 * Unit, -2 * Unit, -2 * Unit),
                          Vec3(0, 3 * Unit, -2 * Unit), Vec3(Unit, Unit, 0),
                          <<Vec3(0, 0, Unit), Vec3(Unit, 0, Unit), Vec3(0, Unit, Unit)>>,
                          <<>>, Null)>>,
               Vec3(Unit, Unit, 0), "n", Null, Vec3(0, 0, 0), 0, 0)}

\* rays from in front of, inside, behind and above the spheres, along the
\* axes and askew
HitRays ==
    {Ray(origin, direction) :
        origin \in {Vec3(0, 0, 5 * Unit), Vec3(0, 0, 0), Vec3(0, 0, -5 * Unit),
                    Vec3(0, 5 * Unit, 0)},
        direction \in {Vec3(0, 0, Unit), Vec3(0, 0, -Unit), Vec3(0, -Unit, 0),
                       Vec3(Lit(1, 10), Lit(2, 10), -Unit)}}

InitIntersect ==
    /\ InitApp
    /\ \E obj \in HitPrimitives, ray \in HitRays :
           input = [kind |-> "call",
                    scene |-> [objects |-> <<obj>>, lights |-> <<>>,
                               backgroundColor |-> Vec3(0, 0, 0)],
                    ray |-> ray, point |-> ray.origin,
                    light |-> Light(Vec3(0, 0, 0), Vec3(Unit, Unit, Unit))]
    /\ output = NoCall

\* input.scene.objects[k].intersect(input.ray)
callIntersect(k) ==
    /\ input.kind = "call"
    /\ k \in 1..Len(input.scene.objects)
    /\ output' = [kind |-> "intersect", object |-> k,
                  result |-> intersect(input.scene.objects[k], input.ray)]
    /\ UNCHANGED input
    /\ UNCHANGED appVars

NextIntersect == \E k \in 1..MaxObjects : callIntersect(k)

SpecIntersect == InitIntersect /\ [][NextIntersect]_vars

\* ------------------------------------------------------------------------
\* Direct calls of Raytracer.render, TextureManager.sampleTexture,
\* OBJLoader.parse and the Ray constructor
\* ------------------------------------------------------------------------
\* renders of a scene without primitives: the background of init, one with
\* channels outside [0, 1] and black; lit and unlit; seen by the camera of
\* init, by the camera as constructed and by a camera that looks down
RenderInputs ==
    {[kind |-> "render",
      scene |-> [objects |-> <<>>, lights |-> lights, backgroundColor |-> backgroundColor],
      camera |-> cam,
      pixels |-> [i \in 1..(CANVAS_WIDTH * CANVAS_HEIGHT * 4) |-> 7]] :
        lights \in {<<>>, InitScene.lights},
        backgroundColor \in {Vec3(Lit(1, 10), Lit(1, 10), Lit(2, 10)),
                             Vec3(Lit(15, 10), -Lit(2, 10), Lit(5, 10)),
                             Vec3(0, 0, 0)},
        cam \in {InitCamera, ConstructedCamera,
                 Camera(Vec3(0, 4 * Unit, Unit), Vec3(0, 0, 0), Vec3(0, Unit, 0),
                        75 * Unit, CANVAS_WIDTH, CANVAS_HEIGHT)}}

\* textures to sample: two by two with four different texels, one by one,
\* and three by one
SampleTextures ==
    {[id |-> "t22", width |-> 2, height |-> 2,
      data |-> <<255, 0, 0, 10, 0, 255, 0, 20, 0, 0, 255, 30, 51, 102, 204, 40>>],
     [id |-> "t11", width |-> 1, height |-> 1, data |-> <<102, 51, 0, 0>>],
     [id |-> "t31", width |-> 3, height |-> 1,
      data |-> <<1, 2, 3, 255, 4, 5, 6, 255, 7, 8, 9, 255>>]}

\* u and v coordinates below 0, in [0, 1] and above 1
SampleCoordinates ==
    {-Lit(5, 10), 0, Lit(3, 10), Lit(5, 10), Lit(99, 100), Unit, Lit(17, 10)}

\* calls of sampleTexture on a TextureManager that holds SampleTextures
SampleInputs ==
    {[kind |-> "sample", textures |-> SampleTextures, textureId |-> t.id,
      uv |-> Vec3(u, v, 0)] :
        t \in SampleTextures, u \in SampleCoordinates, v \in SampleCoordinates}

\* the v, vt and vn records of a file: five vertices, three texture
\* coordinates and three normals
ParseVertices ==
    <<[type |-> "v", parts |-> <<-Unit, -Lit(5, 10), -2 * Unit>>],
      [type |-> "v", parts |-> <<Unit, -Lit(5, 10), -2 * Unit>>],
      [type |-> "v", parts |-> <<2 * Unit, Unit, -2 * Unit>>],
      [type |-> "v", parts |-> <<0, 2 * Unit, -2 * Unit>>],
      [type |-> "v", parts |-> <<-2 * Unit, Unit, -2 * Unit>>],
      [type |-> "vt", parts |-> <<0, 0>>],
      [type |-> "vt", parts |-> <<Unit, 0>>],
      [type |-> "vt", parts |-> <<0, Unit>>],
      [type |-> "vn", parts |-> <<0, 0, Unit>>],
      [type |-> "vn", parts |-> <<0, 0, 2 * Unit>>],
      [type |-> "vn", parts |-> <<0, Unit, Unit>>]>>

\* f records whose references name vertices of ParseVertices: with no, one,
\* two, three, four and five references, and with v/vt/vn references
ParseFaces ==
    {[type |-> "f", parts |-> <<>>],
     [type |-> "f", parts |-> <<<<1>>>>],
     [type |-> "f", parts |-> <<<<1>>, <<2>>>>],
     [type |-> "f", parts |-> <<<<1>>, <<2>>, <<3>>>>],
     [type |-> "f", parts |-> <<<<5>>, <<3>>, <<1>>>>],
     [type |-> "f", parts |-> <<<<1>>, <<2>>, <<3>>, <<4>>>>],
     [type |-> "f", parts |-> <<<<1>>, <<2>>, <<3>>, <<4>>, <<5>>>>],
     [type |-> "f", parts |-> <<<<1, 1, 1>>, <<2, 2, 2>>, <<3, 3, 3>>>>]}

\* texts of ParseVertices followed by one or two f records
ParseTexts ==
    {ParseVertices \o <<f>> : f \in ParseFaces}
    \cup {ParseVertices \o <<f, g>> : f \in ParseFaces, g \in ParseFaces}

\* texts that are empty or do not describe a mesh: the empty text; no f
\* record; an f record that names a vertex past the last one, one before
\* the v records, one with a negative index, one with the index 0; and a v
\* record with coordinates that are not numbers
BadTexts ==
    {<<[type |-> "", parts |-> <<>>]>>,
     ParseVertices,
     ParseVertices \o <<[type |-> "f", parts |-> <<<<1>>, <<2>>, <<9>>>>]>>,
     <<[type |-> "f", parts |-> <<<<1>>, <<2>>, <<3>>>>]>> \o ParseVertices,
     ParseVertices \o <<[type |-> "f", parts |-> <<<<-1>>, <<1>>, <<2>>>>]>>,
     ParseVertices \o <<[type |-> "f", parts |-> <<<<0>>, <<1>>, <<2>>>>]>>,
     <<[type |-> "v", parts |-> <<>>, nan |-> TRUE]>> \o ParseVertices
         \o <<[type |-> "f", parts |-> <<<<1>>, <<2>>, <<3>>>>]>>}

\* calls of OBJLoader.parse
ParseInputs ==
    {[kind |-> "parse", objContent |-> text,
      defaultColor |-> Vec3(Lit(5, 10), Lit(7, 10), Unit), modelName |-> "m.obj"] :
        text \in ParseTexts \cup BadTexts}

\* a Mesh without triangles
EmptyMesh == Mesh(<<>>, Vec3(Unit, Unit, 0), "empty", Null, Vec3(0, 0, 0), 0, 0)

\* what has nothing to read: sampleTexture of 'checkerboard.png', which no
\* TextureManager here holds; intersect of the empty Mesh; and renders, with
\* no texture loaded, of the ground plane of init (textured with
\* 'checkerboard.png') and the empty Mesh
MissingInputs ==
    {[kind |-> "sample", textures |-> held, textureId |-> "checkerboard.png",
      uv |-> Vec3(u, v, 0)] :
        held \in {{}, SampleTextures}, u \in SampleCoordinates,
        v \in {0, Lit(5, 10)}}
    \cup {[kind |-> "call",
           scene |-> [objects |-> <<EmptyMesh>>, lights |-> <<>>,
                      backgroundColor |-> Vec3(0, 0, 0)],
           ray |-> ray, point |-> ray.origin,
           light |-> Light(Vec3(0, 0, 0), Vec3(Unit, Unit, Unit))] : ray \in HitRays}
    \cup {[kind |-> "render",
           scene |-> [objects |-> objects, lights |-> lights,
                      backgroundColor |-> InitScene.backgroundColor],
           camera |-> InitCamera,
           pixels |-> [i \in 1..(CANVAS_WIDTH * CANVAS_HEIGHT * 4) |-> 7]] :
               objects \in {<<InitHeap[1], EmptyMesh>>, <<EmptyMesh>>, <<InitHeap[1]>>},
               lights \in {<<>>, InitScene.lights}}

\* calls of the Ray constructor: directions from the zero vector to
\* vectors of length 20 and more
RayInputs ==
    {[kind |-> "ray", origin |-> Vec3(0, Unit, 0), direction |-> Vec3(x, y, z)] :
        x \in {-2 * Unit, 0, Lit(5, 10), Unit, 20 * Unit},
        y \in {-2 * Unit, 0, Lit(5, 10), Unit, 20 * Unit},
        z \in {-2 * Unit, 0, Lit(5, 10), Unit, 20 * Unit}}

\* meshes of triangles colored otherwise than the mesh: the farther
\* triangle first and the nearer second; two triangles in the same place
\* with different vertex normals; and a triangle far to the side.  Each is
\* intersected with the rays of HitRays and rendered, lit, alone and behind
\* a sphere
MeshInputs ==
    LET Tri(x, z, normals) ==
            Triangle(Vec3(x - 2 * Unit, -2 * Unit, z), Vec3(x + 2 * Unit, -2 * Unit, z),
                     Vec3(x, 3 * Unit, z), Vec3(0, Unit, 0), normals, <<>>, Null)
        Towards(x) == <<Vec3(x, 0, Unit), Vec3(x, 0, Unit), Vec3(x, 0, Unit)>>
        meshes ==
            {Mesh(<<Tri(0, 3 * Unit, <<>>), Tri(0, 2 * Unit, <<>>)>>,
                  Vec3(Unit, 0, Unit), "depth", Null, Vec3(0, 0, 0), 0, 0),
             Mesh(<<Tri(0, 2 * Unit, Towards(0)), Tri(0, 2 * Unit, Towards(Unit))>>,
                  Vec3(Unit, 0, Unit), "tie", Null, Vec3(0, 0, 0), 0, 0),
             Mesh(<<Tri(50 * Unit, 2 * Unit, <<>>)>>,
                  Vec3(Unit, 0, Unit), "aside", Null, Vec3(0, 0, 0), 0, 0)}
    IN  {[kind |-> "call",
          scene |-> [objects |-> <<mesh>>, lights |-> <<>>,
                     backgroundColor |-> Vec3(0, 0, 0)],
          ray |-> ray, point |-> ray.origin,
          light |-> Light(Vec3(0, 0, 0), Vec3(Unit, Unit, Unit))] :
              mesh \in meshes, ray \in HitRays}
        \cup {[kind |-> "render",
               scene |-> [objects |-> objects, lights |-> InitScene.lights,
                          backgroundColor |-> InitScene.backgroundColor],
               camera |-> InitCamera,
               pixels |-> [i \in 1..(CANVAS_WIDTH * CANVAS_HEIGHT * 4) |-> 7]] :
                   objects \in {<<mesh>> : mesh \in meshes}
                                \cup {<<InitHeap[3], mesh>> : mesh \in meshes}}

\* renders of the ground plane under a small sphere, seen by the camera of
\* init: unlit; lit from above the sphere, whose shadow falls on the plane
\* in the middle of the bottom row; lit twice from above; and lit from above
\* and from the side
ShadeInputs ==
    {[kind |-> "render",
      scene |-> [objects |-> <<InitHeap[1],
                               Sphere(Vec3(0, 0, -4 * Unit), Lit(5, 10), Vec3(Unit, 0, 0),
                                      Null)>>,
                 lights |-> lights, backgroundColor |-> InitScene.backgroundColor],
      camera |-> InitCamera,
      pixels |-> [i \in 1..(CANVAS_WIDTH * CANVAS_HEIGHT * 4) |-> 7]] :
          lights \in {<<>>,
                      <<Light(Vec3(0, 5 * Unit, -4 * Unit), Vec3(Unit, Unit, Unit))>>,
                      <<Light(Vec3(0, 5 * Unit, -4 * Unit), Vec3(Unit, Unit, Unit)),
                        Light(Vec3(0, 8 * Unit, -4 * Unit), Vec3(Unit, Lit(5, 10), 0))>>,
                      <<Light(Vec3(0, 5 * Unit, -4 * Unit), Vec3(Unit, Unit, Unit)),
                        InitScene.lights[1]>>}}

\* cameras whose basis is to be computed: the eye above and below lookAt on
\* the world-up axis, and off that axis by little and by much
BasisInputs ==
    {[kind |-> "basis",
      camera |-> [eyePosition |-> add(lookAt, Vec3(dx, dy, 0)), lookAt |-> lookAt,
                  upVector |-> Vec3(0, Unit, 0), fov |-> 75 * Unit,
                  imageWidth |-> CANVAS_WIDTH, imageHeight |-> CANVAS_HEIGHT,
                  u |-> stale, v |-> stale, w |-> stale]] :
          lookAt \in {Vec3(0, 0, 0), Vec3(Unit, 2 * Unit, -3 * Unit)},
          dx \in {0, 1, Unit},
          dy \in {-20 * Unit, -5 * Unit, -Lit(5, 10), Lit(5, 10), 5 * Unit, 20 * Unit},
          stale \in {Vec3(0, 0, 0), Vec3(0, 0, Unit)}}

CallInputs ==
    RenderInputs \cup SampleInputs \cup MissingInputs \cup ParseInputs \cup RayInputs
        \cup MeshInputs \cup ShadeInputs \cup BasisInputs

InitCalls ==
    /\ InitApp
    /\ input \in CallInputs
    /\ output = NoCall

\* new Raytracer(...) over input.pixels, input.camera and input.scene, then
\* render()
callRender ==
    /\ input.kind = "render"
    /\ output' = [kind |-> "render",
                  result |-> render(input.camera, input.scene, {}, CANVAS_WIDTH,
                                    CANVAS_HEIGHT, input.pixels)]
    /\ UNCHANGED input
    /\ UNCHANGED appVars

\* a TextureManager whose Map is input.textures:
\* sampleTexture(input.textureId, input.uv)
callSampleTexture ==
    /\ input.kind = "sample"
    /\ output' = [kind |-> "sample",
                  result |-> sampleTexture(input.textures, input.textureId, input.uv)]
    /\ UNCHANGED input
    /\ UNCHANGED appVars

\* OBJLoader.parse(input.objContent, input.defaultColor, input.modelName)
callParse ==
    /\ input.kind = "parse"
    /\ output' = [kind |-> "parse",
                  result |-> parse(input.objContent, input.defaultColor, input.modelName)]
    /\ UNCHANGED input
    /\ UNCHANGED appVars

\* new Ray(input.origin, input.direction)
callRay ==
    /\ input.kind = "ray"
    /\ output' = [kind |-> "ray", result |-> Ray(input.origin, input.direction)]
    /\ UNCHANGED input
    /\ UNCHANGED appVars

\* input.camera.updateBasis()
callUpdateBasis ==
    /\ input.kind = "basis"
    /\ output' = [kind |-> "basis", result |-> updateBasis(input.camera)]
    /\ UNCHANGED input
    /\ UNCHANGED appVars

NextCalls ==
    \/ callRender
    \/ callSampleTexture
    \/ NextIntersect
    \/ callParse
    \/ callRay
    \/ callUpdateBasis

SpecCalls == InitCalls /\ [][NextCalls]_vars

\* ------------------------------------------------------------------------
\* What the user does
\* ------------------------------------------------------------------------
\* values a user gives a camera slider
SliderInputs == {<<"lookAtY", Lit(5, 10)>>, <<"lookAtY", 0>>, <<"orbitRadius", 6 * Unit>>}

\* event.movementX, event.movementY of a mouse move, in pixels
MouseMovements == {<<900, 0>>, <<-900, 0>>, <<0, 890>>, <<0, -890>>}

\* a mouse move that takes the camera half way round the scene
HalfTurn == <<1800, 0>>

\* event.deltaY of a wheel event
WheelDeltas == {-1400}

\* the canvas pixels a user clicks: the middle one and the top right one
ClickPixels ==
    {<<CANVAS_WIDTH \div 2, (CANVAS_HEIGHT - 1) \div 2>>, <<CANVAS_WIDTH - 1, 0>>}

\* the values a user gives the material controls
ColorInputs == {<<0, 0, 255>>}
SpecularColorInputs == {<<255, 255, 255>>}
ShininessInputs == {50 * Unit}
ReflectivityInputs == {Lit(5, 10)}

NextCamera ==
    \/ \E s \in SliderInputs : updateCameraFromUI(s[1], s[2])
    \/ onMouseDown(2, 0, 0)
    \/ \E p \in ClickPixels : onMouseDown(0, p[1], p[2])
    \/ onMouseUp
    \/ \E m \in MouseMovements : onMouseMove(m[1], m[2])
    \/ \E d \in WheelDeltas : onMouseWheel(d)

SpecCamera == Init /\ [][NextCamera]_vars

NextMaterial ==
    \/ onMouseDown(2, 0, 0)
    \/ onMouseUp
    \/ onMouseMove(HalfTurn[1], HalfTurn[2])
    \/ \E p \in ClickPixels : onMouseDown(0, p[1], p[2])
    \/ \E rgb \in ColorInputs : objectColorInput(rgb)
    \/ \E rgb \in SpecularColorInputs : specularColorInput(rgb)
    \/ \E value \in ShininessInputs : shininessInput(value)
    \/ \E value \in ReflectivityInputs : reflectivityInput(value)

SpecMaterial == Init /\ [][NextMaterial]_vars

NextModel ==
    \/ \E p \in ClickPixels : onMouseDown(0, p[1], p[2])
    \/ \E file \in ModelFiles : modelFileChange(file)
    \/ \E k \in 1..MaxModelLoads : modelReaderLoad(k)
    \/ \E k \in 1..MaxModelLoads : modelReaderError(k)

SpecModel == Init /\ [][NextModel]_vars

NextTexture ==
    \/ \E p \in ClickPixels : onMouseDown(0, p[1], p[2])
    \/ \E file \in TextureFiles \cup {NoFile} : textureFileChange(file)
    \/ \E k \in 1..MaxTextureLoads : textureReaderLoad(k)
    \/ \E k \in 1..MaxTextureLoads : textureReaderError(k)
    \/ \E k \in 1..MaxTextureLoads, hasContext \in BOOLEAN : imgLoad(k, hasContext)
    \/ \E k \in 1..MaxTextureLoads : imgError(k)
    \/ textureContinuation

SpecTexture == Init /\ [][NextTexture]_vars

\* the pixels a user clicks when objects are selected: those of ClickPixels,
\* one in the middle row at the left and one in the bottom row
SelectPixels ==
    ClickPixels \cup {<<0, CANVAS_HEIGHT \div 2>>, <<CANVAS_WIDTH \div 2, CANVAS_HEIGHT - 1>>}

\* clicks, a texture load and a model load together: the clicks reach two
\* spheres, the ground plane and the background, and one file of each kind
\* is loaded
NextSelect ==
    \/ \E p \in SelectPixels : onMouseDown(0, p[1], p[2])
    \/ \E file \in TextureFiles : textureLoads = <<>> /\ textureFileChange(file)
    \/ textureReaderLoad(1)
    \/ \E hasContext \in BOOLEAN : imgLoad(1, hasContext)
    \/ textureContinuation
    \/ modelReaders = <<>> /\ modelFileChange(CHOOSE file \in ModelFiles : file.name = "tri.obj")
    \/ modelReaderLoad(1)

SpecSelect == Init /\ [][NextSelect]_vars

\* values given to the orbit radius slider: two inside the range min="1.0"
\* max="20.0" of the range input, and two an event can carry only if the
\* slider's value is outside that range
OrbitSliderInputs ==
    {<<"orbitRadius", 3 * Unit>>, <<"orbitRadius", 20 * Unit>>,
     <<"orbitRadius", 0>>, <<"orbitRadius", Lit(5, 10)>>, <<"lookAtY", Lit(5, 10)>>}

\* event.deltaY of wheel events that zoom all the way in and all the way out
OrbitWheelDeltas == {-1400, 1900}

\* the events that move the camera: sliders, orbit drags and the wheel
NextOrbit ==
    \/ \E s \in OrbitSliderInputs : updateCameraFromUI(s[1], s[2])
    \/ onMouseDown(2, 0, 0)
    \/ onMouseUp
    \/ \E m \in MouseMovements : onMouseMove(m[1], m[2])
    \/ \E d \in OrbitWheelDeltas : onMouseWheel(d)

SpecOrbit == Init /\ [][NextOrbit]_vars

Next ==
    \/ NextTrace \/ NextIntersect \/ NextCalls
    \/ NextCamera \/ NextMaterial \/ NextModel \/ NextTexture \/ NextSelect
    \/ NextOrbit

Spec == Init /\ [][Next]_vars

\* ------------------------------------------------------------------------
\* Properties
\* ------------------------------------------------------------------------
\* C1: a call of Raytracer.render runs to completion and traces and writes
\* all width * height pixels, whatever the material of the primitives
C1_RenderCompletes ==
    /\ lastRender.result.completed
    /\ Len(lastRender.result.shaded) = CANVAS_WIDTH * CANVAS_HEIGHT

\* the positions of the primitives of a direct call that the ray hits
HitPositions(objs, ray) == {k \in 1..Len(objs) : intersect(objs[k], ray).hit}

\* position k is the first among hits whose distance is the least
FirstClosest(objs, ray, hits, k) ==
    \A j \in hits :
        \/ intersect(objs[k], ray).info.distance < intersect(objs[j], ray).info.distance
        \/ /\ intersect(objs[k], ray).info.distance = intersect(objs[j], ray).info.distance
           /\ k <= j

TraceAnswers(objs, ray, hits, result) ==
    IF hits = {}
    THEN result = [object |-> 0, info |-> <<>>]
    ELSE \E k \in hits :
            /\ FirstClosest(objs, ray, hits, k)
            /\ result = [object |-> k, info |-> intersect(objs[k], ray).info]

\* C2: trace returns the primitive of least hit distance with its
\* intersection info, the one added first when several hit at that
\* distance, and {object: null, info: null} when none hits
C2_TraceClosestFirst ==
    output.kind = "trace" =>
        TraceAnswers(input.scene.objects, input.ray,
                     HitPositions(input.scene.objects, input.ray), output.result)

\* trace has answered a ray that two primitives hit at the same least
\* distance, with the one added first
C2_Witness ==
    /\ output.kind = "trace"
    /\ \E i, j \in HitPositions(input.scene.objects, input.ray) :
          /\ i < j
          /\ output.result.object = i
          /\ intersect(input.scene.objects[i], input.ray).info.distance
                 = intersect(input.scene.objects[j], input.ray).info.distance

\* a primitive hits the shadow ray from point towards light before the
\* light, less the bias
Occludes(obj, point, light) ==
    /\ intersect(obj, ShadowRay(point, light)).hit
    /\ intersect(obj, ShadowRay(point, light)).info.distance
           < length(subtract(light.position, point)) - Lit(1, 10000)

\* C3: isInShadow is true exactly when some primitive of the scene hits the
\* shadow ray at a distance less than the distance to the light less 1e-4
C3_ShadowIffOccluder ==
    output.kind = "isInShadow" =>
        (output.result <=>
            \E k \in 1..Len(input.scene.objects) :
                Occludes(input.scene.objects[k], input.point, input.light))

\* isInShadow has answered false for a shadow ray that a primitive hits
\* beyond the light
C3_Witness ==
    /\ output.kind = "isInShadow"
    /\ ~output.result
    /\ \E k \in 1..Len(input.scene.objects) :
          intersect(input.scene.objects[k], ShadowRay(input.point, input.light)).hit

\* the four bytes of pixel (x, y) after a call of render that traced it as
\* entry
PixelWritten(result, x, y, entry) ==
    /\ \A c \in 1..4 : result.writes[(y * CANVAS_WIDTH + x) * 4 + c] = 1
    /\ result.pixels[(y * CANVAS_WIDTH + x) * 4 + 1] = Quantize(entry.color.x)
    /\ result.pixels[(y * CANVAS_WIDTH + x) * 4 + 2] = Quantize(entry.color.y)
    /\ result.pixels[(y * CANVAS_WIDTH + x) * 4 + 3] = Quantize(entry.color.z)
    /\ result.pixels[(y * CANVAS_WIDTH + x) * 4 + 4] = 255

\* C4: after a completed call of render every pixel (x, y) has been written
\* exactly once in that call, at (y * width + x) * 4, with alpha 255, and
\* the buffer holds nothing else
C4_EveryPixelWrittenOnce ==
    lastRender.result.completed =>
        /\ pixels = lastRender.result.pixels
        /\ Len(pixels) = CANVAS_WIDTH * CANVAS_HEIGHT * 4
        /\ \A x \in 0..(CANVAS_WIDTH - 1), y \in 0..(CANVAS_HEIGHT - 1) :
              PixelWritten(lastRender.result, x, y,
                           lastRender.result.shaded[y * CANVAS_WIDTH + x + 1])

\* a render has completed over a buffer an earlier render filled, after the
\* user recolored the selected sphere
C4_Witness ==
    /\ lastRender.result.completed
    /\ selectedObject # 0
    /\ heap[selectedObject].color # InitHeap[selectedObject].color
    /\ \E k \in 1..Len(lastRender.result.shaded) :
          lastRender.result.shaded[k].object # 0

\* the UV coordinates the intersect of a primitive computes for a hit
ComputedUV(obj, info) ==
    CASE obj.kind = "Sphere" -> SphereUV(info.normal)
      [] obj.kind = "Plane"  -> PlaneUV(obj, info.point)
      [] OTHER               -> NoUV

TexturedHitSampled(primitive, entry, tex) ==
    (primitive.textureId # Null /\ ComputedUV(primitive, entry.info) # NoUV) =>
        entry.objectColor
            = sampleTexture(tex, primitive.textureId, ComputedUV(primitive, entry.info))

\* C5: a hit on a primitive that has a textureId and whose intersect computed
\* UV coordinates is shaded with the color sampleTexture returns for them
C5_TextureOverridesDiffuse ==
    \A k \in 1..Len(lastRender.result.shaded) :
        lastRender.result.shaded[k].object # 0 =>
            TexturedHitSampled(lastRender.scene.objects[lastRender.result.shaded[k].object],
                               lastRender.result.shaded[k], lastRender.textures)

\* C6: the step that handles a rejected texture load leaves every primitive,
\* the textureId and textureName of the selected one included, as it was
C6_FailedTextureLoadKeepsTexture ==
    [][(microtask.kind = "rejected" /\ microtask' = NoTask) => heap' = heap]_vars

\* model load k ends in this step without a mesh: its reader reports an
\* error, or parse throws or returns null
ModelLoadFails(k) ==
    /\ modelReaders[k].stage = "reading"
    /\ \/ modelReaders'[k].stage = "failed"
       \/ /\ modelReaders'[k].stage = "loaded"
          /\ parse(modelReaders[k].file.content, Vec3(0, 0, 0),
                   modelReaders[k].file.name).mesh = <<>>

\* C7: a model load that fails leaves scene.objects, scene.lights, the
\* primitives and the selection as they were
C7_FailedModelLoadKeepsScene ==
    [][(\E k \in 1..Len(modelReaders) : ModelLoadFails(k))
           => UNCHANGED <<scene, heap, selectedObject, selectedObjectIndex>>]_vars

\* a load has failed in a scene that holds the mesh of an earlier load
C7_Witness ==
    /\ Len(modelReaders) = 2
    /\ modelReaders[1].file.name = "tri.obj" /\ modelReaders[1].stage = "loaded"
    /\ modelReaders[2].file.name # "tri.obj" /\ modelReaders[2].stage # "reading"
    /\ \E k \in 1..Len(scene.objects) : heap[scene.objects[k]].kind = "Mesh"

\* the names a texture load can give a primitive as textureId
LoadedNames == {file.name : file \in TextureFiles}

\* every entry of the Map is whole, and every primitive that carries the id
\* of a load finds its entry
TexturesWhole(primitives, tex) ==
    /\ \A t \in tex : Len(t.data) = t.width * t.height * 4
    /\ \A k \in 1..Len(primitives) :
          primitives[k].textureId \in LoadedNames
              => hasTexture(tex, primitives[k].textureId)

\* C8: no render sees a texture that is not completely loaded: a primitive
\* carries the id of a load only once the whole entry is stored, and not as
\* a result of a load that is still pending
C8_NoPartialTexture ==
    /\ TexturesWhole(heap, textures)
    /\ TexturesWhole(lastRender.scene.objects, lastRender.textures)
    /\ \A k \in 1..Len(textureLoads), i \in 1..Len(heap) :
          (textureLoads[k].stage \in {"reading", "decoding"}
           /\ heap[i].textureId = textureLoads[k].file.name)
              => \E j \in 1..Len(textureLoads) :
                    /\ j # k
                    /\ textureLoads[j].stage = "resolved"
                    /\ textureLoads[j].file.name = heap[i].textureId

\* a render has run with a loaded texture applied while another load was
\* under way
C8_Witness ==
    /\ \E k \in 1..Len(lastRender.scene.objects) :
          lastRender.scene.objects[k].textureId \in LoadedNames
    /\ \E k \in 1..Len(textureLoads) : textureLoads[k].stage \in {"reading", "decoding"}

\* the basis of cam is the one updateBasis derives from its eyePosition and
\* lookAt
BasisFresh(cam) == Basis(cam) = Basis(updateBasis(cam))

\* C9: at the start of every render and of every pick, and when a handler
\* returns, the camera basis is the one updateBasis derives from the
\* current eyePosition and lookAt
C9_BasisFresh ==
    /\ BasisFresh(camera)
    /\ BasisFresh(lastRender.camera)
    /\ lastPick # NoPick => BasisFresh(lastPick.camera)

\* a pick and a render have run after the user moved the camera by orbit,
\* wheel and slider
C9_Witness ==
    /\ lastPick # NoPick
    /\ cameraYaw # -90 * Unit
    /\ cameraPitch # 0
    /\ cameraRadius # 6 * Unit
    /\ camera.lookAt # Vec3(0, 0, 0)

\* a and b are equal to within two hundredths
Near(a, b) == Abs(a - b) <= Lit(2, 100)

Orthonormal(basis) ==
    /\ Near(dot(basis.u, basis.u), Unit)
    /\ Near(dot(basis.v, basis.v), Unit)
    /\ Near(dot(basis.w, basis.w), Unit)
    /\ Near(dot(basis.u, basis.v), 0)
    /\ Near(dot(basis.v, basis.w), 0)
    /\ Near(dot(basis.u, basis.w), 0)
    /\ Near(cross(basis.u, basis.v).x, basis.w.x)
    /\ Near(cross(basis.u, basis.v).y, basis.w.y)
    /\ Near(cross(basis.u, basis.v).z, basis.w.z)

\* C10: the basis the Camera constructor leaves, and the basis every call of
\* updateBasis leaves, is orthonormal and right-handed
C10_BasisOrthonormal ==
    \A k \in 1..Len(basisLog) : Orthonormal(basisLog[k])

\* C11: pickObject(x, y) returns the primitive (or null) that render shades
\* pixel (x, y) with: the render of the task that picked traced that pixel
\* to the same object
C11_PickSameAsRender ==
    (lastPick # NoPick
     /\ Len(lastRender.result.shaded) > lastPick.pixelY * CANVAS_WIDTH + lastPick.pixelX)
        => lastRender.result.shaded[lastPick.pixelY * CANVAS_WIDTH + lastPick.pixelX + 1].object
               = lastPick.hitResult.object

\* a pick off the diagonal of the canvas, with the camera moved, found a
\* primitive or found none, and the render traced its pixel
C11_Witness ==
    /\ lastPick # NoPick
    /\ lastPick.pixelX # lastPick.pixelY
    /\ camera.eyePosition # InitCamera.eyePosition
    /\ Len(lastRender.result.shaded) > lastPick.pixelY * CANVAS_WIDTH + lastPick.pixelX

C13_HitFacesRay ==
    (output.kind = "intersect" /\ output.result.hit)
        => /\ output.result.info.distance > 0
           /\ dot(output.result.info.normal, input.ray.direction) <= 0

\* floor(clamp(c, 0, 1) * 255)
QuantizedChannel(c) == (Max(0, Min(Unit, c)) * 255) \div Unit

\* the four bytes of pixel number k of a buffer are those of color, opaque
PixelIs(buffer, k, color) ==
    /\ buffer[4 * k + 1] = QuantizedChannel(color.x)
    /\ buffer[4 * k + 2] = QuantizedChannel(color.y)
    /\ buffer[4 * k + 3] = QuantizedChannel(color.z)
    /\ buffer[4 * k + 4] = 255

\* C14: a render of a scene with no primitives returns and leaves every
\* pixel at the quantized background color with alpha 255; for the
\* background (0.1, 0.1, 0.2) every pixel is (25, 25, 51, 255)
C14_EmptySceneIsBackground ==
    (output.kind = "render" /\ Len(input.scene.objects) = 0)
        => /\ output.result.completed
           /\ Len(output.result.pixels) = CANVAS_WIDTH * CANVAS_HEIGHT * 4
           /\ \A k \in 0..(CANVAS_WIDTH * CANVAS_HEIGHT - 1) :
                 /\ PixelIs(output.result.pixels, k, input.scene.backgroundColor)
                 /\ input.scene.backgroundColor = Vec3(Lit(1, 10), Lit(1, 10), Lit(2, 10))
                        => /\ output.result.pixels[4 * k + 1] = 25
                           /\ output.result.pixels[4 * k + 2] = 25
                           /\ output.result.pixels[4 * k + 3] = 51

\* a lit scene without primitives and with the background (0.1, 0.1, 0.2)
\* has been rendered
C14_Witness ==
    /\ output.kind = "render"
    /\ Len(input.scene.objects) = 0
    /\ Len(input.scene.lights) > 0
    /\ input.scene.backgroundColor = Vec3(Lit(1, 10), Lit(1, 10), Lit(2, 10))

Clamp(c, lo, hi) == IF c < lo THEN lo ELSE IF c > hi THEN hi ELSE c

\* the 0-based index of the first byte of the texel that the coordinates
\* uv name in a texture: x = clamp(floor(u * width), 0, width - 1),
\* y = clamp(floor((1 - v) * height), 0, height - 1)
TexelIndex(texture, uv) ==
    (Clamp(((Unit - uv.y) * texture.height) \div Unit, 0, texture.height - 1) * texture.width
     + Clamp((uv.x * texture.width) \div Unit, 0, texture.width - 1)) * 4

SampledAt(texture, index, result) ==
    /\ index >= 0
    /\ index + 2 < texture.width * texture.height * 4
    /\ index + 2 < Len(texture.data)
    /\ result = Vec3(Quot(texture.data[index + 1] * Unit, 255),
                     Quot(texture.data[index + 2] * Unit, 255),
                     Quot(texture.data[index + 3] * Unit, 255))

\* C16: for a texture of width and height of at least 1 and any UV,
\* sampleTexture reads the texel at the clamped coordinates, inside the
\* buffer, and returns its red, green and blue bytes divided by 255
C16_SampleClamped ==
    output.kind = "sample" =>
        \A t \in input.textures :
            t.id = input.textureId
                => SampledAt(t, TexelIndex(t, input.uv), output.result)

\* a texture of two rows has been sampled with u above 1 and v below 0
C16_Witness ==
    /\ output.kind = "sample"
    /\ input.uv.x > Unit
    /\ input.uv.y < 0
    /\ \E t \in input.textures : t.id = input.textureId /\ t.height = 2

\* the scene without its empty meshes and with no primitive textured
Stripped(sc) ==
    [sc EXCEPT !.objects =
        [k \in 1..Len(SelectSeq(sc.objects,
                                LAMBDA o : ~(o.kind = "Mesh" /\ Len(o.triangles) = 0))) |->
            [SelectSeq(sc.objects,
                       LAMBDA o : ~(o.kind = "Mesh" /\ Len(o.triangles) = 0))[k]
                EXCEPT !.textureId = Null]]]

\* C17: sampleTexture of a textureId that the TextureManager has no entry
\* for returns black; intersect of a Mesh without triangles returns no hit;
\* and a render of a scene that holds such a Mesh or a primitive whose
\* texture was never loaded returns whenever the render of the scene
\* without them returns, and always when the scene has no light
C17_MissingIsHarmless ==
    /\ (output.kind = "sample" /\ ~hasTexture(input.textures, input.textureId))
           => output.result = Vec3(0, 0, 0)
    /\ (/\ output.kind = "intersect"
        /\ input.scene.objects[output.object].kind = "Mesh"
        /\ Len(input.scene.objects[output.object].triangles) = 0)
           => ~output.result.hit
    /\ (output.kind = "render" /\ Stripped(input.scene) # input.scene)
           => /\ Len(input.scene.lights) = 0 => output.result.completed
              /\ render(input.camera, Stripped(input.scene), {}, CANVAS_WIDTH,
                        CANVAS_HEIGHT, input.pixels).completed
                     => output.result.completed

\* 'checkerboard.png' has been sampled from a TextureManager that holds
\* other textures
C17_Witness ==
    /\ output.kind = "sample"
    /\ input.textureId = "checkerboard.png"
    /\ input.textures # {}
    /\ ~hasTexture(input.textures, input.textureId)

\* the vertex references of the triangles that a fan over the references
\* r0 .. r(n-1) of an f record has: (r0, r(i+1), r(i+2)) for i = 0 .. n - 3
FanOf(refs) ==
    IF Len(refs) < 3 THEN <<>>
    ELSE [i \in 1..(Len(refs) - 2) |-> <<refs[1][1], refs[i + 1][1], refs[i + 2][1]>>]

\* the fans of the f records of a text, one after the other in record order
RECURSIVE FansFrom(_, _)
FansFrom(text, k) ==
    IF k > Len(text) THEN <<>>
    ELSE (IF text[k].type = "f" THEN FanOf(text[k].parts) ELSE <<>>) \o FansFrom(text, k + 1)

\* the position that the n-th v record of a text gives
VertexOf(text, n) ==
    LET vs == SelectSeq(text, LAMBDA line : line.type = "v")
    IN  IF "nan" \in DOMAIN vs[n] THEN NaNVec3
        ELSE Vec3(vs[n].parts[1], vs[n].parts[2], vs[n].parts[3])

\* every f record of the text refers to v records that precede it
RefsDefined(text) ==
    \A k \in 1..Len(text) :
        text[k].type = "f" =>
            \A j \in 1..Len(text[k].parts) :
                /\ text[k].parts[j][1] >= 1
                /\ text[k].parts[j][1]
                       <= Len(SelectSeq(SubSeq(text, 1, k), LAMBDA line : line.type = "v"))

\* the triangles of the Mesh returned are those of the fans, in order
FansParsed(text, result) ==
    /\ ~result.thrown
    /\ FansFrom(text, 1) = <<>> => result.mesh = <<>>
    /\ FansFrom(text, 1) # <<>> =>
           /\ Len(result.mesh) = 1
           /\ Len(result.mesh[1].triangles) = Len(FansFrom(text, 1))
           /\ \A t \in 1..Len(FansFrom(text, 1)) :
                 /\ result.mesh[1].triangles[t].v0 = VertexOf(text, FansFrom(text, 1)[t][1])
                 /\ result.mesh[1].triangles[t].v1 = VertexOf(text, FansFrom(text, 1)[t][2])
                 /\ result.mesh[1].triangles[t].v2 = VertexOf(text, FansFrom(text, 1)[t][3])

\* C18: OBJLoader.parse turns an f record of n >= 3 vertex references into
\* the n - 2 triangles (r0, r(i+1), r(i+2)), in record order and in i order,
\* and an f record of fewer than 3 references into no triangle
C18_FacesFanned ==
    (output.kind = "parse" /\ RefsDefined(input.objContent))
        => FansParsed(input.objContent, output.result)

\* a text with a record of five references followed by one of two
\* references has been parsed into a Mesh of three triangles
C18_Witness ==
    /\ output.kind = "parse"
    /\ RefsDefined(input.objContent)
    /\ \E k \in 1..(Len(input.objContent) - 1) :
           /\ input.objContent[k].type = "f"
           /\ Len(input.objContent[k].parts) = 5
           /\ input.objContent[k + 1].type = "f"
           /\ Len(input.objContent[k + 1].parts) = 2
    /\ Len(output.result.mesh) = 1
    /\ Len(output.result.mesh[1].triangles) = 3

\* the text has a v record with a coordinate that is not a number
HasNaNVertex(text) == \E k \in 1..Len(text) : "nan" \in DOMAIN text[k]

\* the Mesh has a triangle with a vertex that the text does not define: a
\* NaN vertex, or one that no v record of the text gives
InvalidTriangles(text, mesh) ==
    \E t \in 1..Len(mesh.triangles) :
        \E v \in {mesh.triangles[t].v0, mesh.triangles[t].v1, mesh.triangles[t].v2} :
            \/ IsNaNVec3(v)
            \/ \A k \in 1..Len(text) :
                   (text[k].type = "v" /\ "nan" \notin DOMAIN text[k])
                       => v # Vec3(text[k].parts[1], text[k].parts[2], text[k].parts[3])

\* C19: for a text that is empty, has no valid face, has a v record with
\* coordinates that are not numbers or has an f record that refers to a
\* vertex that was not defined, OBJLoader.parse returns null or raises and
\* returns no Mesh
C19_BadTextNoMesh ==
    (/\ output.kind = "parse"
     /\ \/ FansFrom(input.objContent, 1) = <<>>
        \/ HasNaNVertex(input.objContent)
        \/ ~RefsDefined(input.objContent))
        => output.result.mesh = <<>>

\* C19, the part that holds: a text with no f record of three references
\* or more, or with an f record that refers to a vertex past those defined
\* so far or to a negative index, yields null or raises
C19_NoFaceOrPastEnd ==
    (/\ output.kind = "parse"
     /\ ~HasNaNVertex(input.objContent)
     /\ \/ FansFrom(input.objContent, 1) = <<>>
        \/ \E k \in 1..Len(FansFrom(input.objContent, 1)) :
               \E j \in 1..3 :
                   \/ FansFrom(input.objContent, 1)[k][j] < 0
                   \/ FansFrom(input.objContent, 1)[k][j]
                          > Len(SelectSeq(input.objContent, LAMBDA line : line.type = "v")))
        => output.result.mesh = <<>>

\* C19, what the program does instead: a Mesh with invalid triangles is
\* returned without an error
C19_InvalidMeshReturned ==
    /\ output.kind = "parse"
    /\ ~output.result.thrown
    /\ Len(output.result.mesh) = 1
    /\ InvalidTriangles(input.objContent, output.result.mesh[1])

\* C20: a Ray has a direction of length 1 after construction, whatever the
\* direction it was constructed from, the zero vector included
C20_RayDirectionUnit ==
    output.kind = "ray" => Near(length(output.result.direction), Unit)

\* C20, the part that holds: a Ray constructed from a direction that is not
\* the zero vector has a direction of length 1
C20_NonZeroDirectionUnit ==
    (output.kind = "ray" /\ input.direction # Vec3(0, 0, 0))
        => Near(length(output.result.direction), Unit)

\* C20, what the program does instead: the Ray constructed from the zero
\* vector has the zero vector for its direction
C20_ZeroDirectionKept ==
    /\ output.kind = "ray"
    /\ input.direction = Vec3(0, 0, 0)
    /\ output.result.direction = Vec3(0, 0, 0)

\* the coefficients a, b, c of the quadratic of a ray and a sphere, its
\* discriminant and its roots t0 <= t1
SphereQuadratic(s, ray) ==
    LET oc == subtract(ray.origin, s.center)
        a  == dot(ray.direction, ray.direction)
        b  == 2 * dot(oc, ray.direction)
        c  == dot(oc, oc) - Mul(s.radius, s.radius)
        d  == Mul(b, b) - 4 * Mul(a, c)
    IN  [a |-> a, b |-> b, discriminant |-> d,
         t0 |-> IF d < 0 \/ a = 0 THEN 0 ELSE Div(-b - MathSqrt(d), 2 * a),
         t1 |-> IF d < 0 \/ a = 0 THEN 0 ELSE Div(-b + MathSqrt(d), 2 * a)]

\* what the claim says of the result for the quadratic q
SmallestRootReported(q, result) ==
    /\ q.discriminant < 0 => ~result.hit
    /\ (q.discriminant >= 0 /\ GtEps4(q.t0)) => (result.hit /\ result.info.distance = q.t0)
    /\ (q.discriminant >= 0 /\ ~GtEps4(q.t0) /\ GtEps4(q.t1))
           => (result.hit /\ result.info.distance = q.t1)
    /\ (q.discriminant >= 0 /\ ~GtEps4(q.t0) /\ ~GtEps4(q.t1)) => ~result.hit
    /\ result.hit => GtEps4(result.info.distance)

\* C21: Sphere.intersect reports no hit for a negative discriminant, else
\* the smaller root t0 if t0 > 1e-4, else the larger root t1 if t1 > 1e-4,
\* else no hit; the ray from (0, 0, 5) along (0, 0, -1) hits the unit sphere
\* at the origin at t = 4, at the point (0, 0, 1), with the normal (0, 0, 1)
C21_SphereSmallestRoot ==
    (output.kind = "intersect" /\ input.scene.objects[output.object].kind = "Sphere"
     /\ input.ray.direction # Vec3(0, 0, 0))
        => /\ SmallestRootReported(SphereQuadratic(input.scene.objects[output.object],
                                                   input.ray), output.result)
           /\ (/\ input.scene.objects[output.object].center = Vec3(0, 0, 0)
               /\ input.scene.objects[output.object].radius = Unit
               /\ input.ray = Ray(Vec3(0, 0, 5 * Unit), Vec3(0, 0, -Unit)))
                  => /\ output.result.hit
                     /\ output.result.info.distance = 4 * Unit
                     /\ output.result.info.point = Vec3(0, 0, Unit)
                     /\ output.result.info.normal = Vec3(0, 0, Unit)

\* a ray that starts inside a sphere has been intersected with it: the
\* smaller root is behind the origin and the larger root is reported
C21_Witness ==
    /\ output.kind = "intersect"
    /\ input.scene.objects[output.object].kind = "Sphere"
    /\ SphereQuadratic(input.scene.objects[output.object], input.ray).t0 < 0
    /\ output.result.hit
    /\ output.result.info.distance
           = SphereQuadratic(input.scene.objects[output.object], input.ray).t1

\* the positions of the triangles that the ray hits
TriangleHits(triangles, ray) ==
    {k \in 1..Len(triangles) : TriangleIntersect(triangles[k], ray).hit}

\* the result is the info of the triangle at the least distance, of the
\* first of them in the sequence if several are that near
ClosestTriangleInfo(triangles, ray, result) ==
    \E k \in TriangleHits(triangles, ray) :
        /\ \A j \in TriangleHits(triangles, ray) :
               \/ TriangleIntersect(triangles[k], ray).info.distance
                      < TriangleIntersect(triangles[j], ray).info.distance
               \/ /\ TriangleIntersect(triangles[k], ray).info.distance
                         = TriangleIntersect(triangles[j], ray).info.distance
                  /\ k <= j
        /\ result.info = TriangleIntersect(triangles[k], ray).info

\* C22: Mesh.intersect reports a hit iff one of its triangles does, and then
\* returns the info of the triangle at the least distance, the first in the
\* sequence on a tie; the object that Scene.trace reports and that traceRay
\* shades is the Mesh of scene.objects, with the color of the Mesh
C22_MeshClosestTriangle ==
    /\ (output.kind = "intersect" /\ input.scene.objects[output.object].kind = "Mesh")
           => /\ output.result.hit
                     <=> TriangleHits(input.scene.objects[output.object].triangles,
                                      input.ray) # {}
              /\ output.result.hit
                     => ClosestTriangleInfo(input.scene.objects[output.object].triangles,
                                            input.ray, output.result)
    /\ output.kind = "render"
           => \A p \in 1..Len(output.result.shaded) :
                  LET entry == output.result.shaded[p]
                      ray   == computePrimaryRay(input.camera, (p - 1) % CANVAS_WIDTH,
                                                 (p - 1) \div CANVAS_WIDTH)
                  IN  (entry.object # 0 /\ input.scene.objects[entry.object].kind = "Mesh")
                          => /\ entry.objectColor = input.scene.objects[entry.object].color
                             /\ TriangleHits(input.scene.objects[entry.object].triangles,
                                             ray) # {}
                             /\ ClosestTriangleInfo(
                                    input.scene.objects[entry.object].triangles, ray, entry)

\* a mesh of two triangles in the same place has been hit: the info is that
\* of the first
C22_Witness ==
    /\ output.kind = "intersect"
    /\ input.scene.objects[output.object].kind = "Mesh"
    /\ Len(input.scene.objects[output.object].triangles) = 2
    /\ output.result.hit
    /\ TriangleIntersect(input.scene.objects[output.object].triangles[1], input.ray).hit
    /\ TriangleIntersect(input.scene.objects[output.object].triangles[2], input.ray).hit
    /\ TriangleIntersect(input.scene.objects[output.object].triangles[1], input.ray).info.distance
           = TriangleIntersect(input.scene.objects[output.object].triangles[2],
                               input.ray).info.distance
    /\ TriangleIntersect(input.scene.objects[output.object].triangles[1], input.ray).info
           # TriangleIntersect(input.scene.objects[output.object].triangles[2], input.ray).info
    /\ output.result.info
           = TriangleIntersect(input.scene.objects[output.object].triangles[1], input.ray).info

\* the lights of the scene that the point is not in shadow of
LitBy(sc, point) == {k \in 1..Len(sc.lights) : ~isInShadow(sc, point, sc.lights[k])}

\* the sum of the contributions of the lights k .. Len(sc.lights) to a hit:
\* nothing for a light that the hit point is in shadow of
RECURSIVE SumOfLights(_, _, _, _, _)
SumOfLights(sc, entry, hitObject, cameraEyePos, k) ==
    IF k > Len(sc.lights) THEN Vec3(0, 0, 0)
    ELSE add(IF k \in LitBy(sc, entry.info.point)
             THEN lightDiffuse(hitObject, entry.info, entry.objectColor, cameraEyePos,
                               sc.lights[k],
                               normalize(subtract(sc.lights[k].position,
                                                  entry.info.point))).color
             ELSE Vec3(0, 0, 0),
             SumOfLights(sc, entry, hitObject, cameraEyePos, k + 1))

\* C23: the color that traceRay returns for a hit is the sum over the lights
\* of their contributions, nothing for a light whose shadow the hit point is
\* in, neither averaged nor clamped: black without lights and when shadowed
\* from every light; render clamps when it writes the pixel
C23_ColorIsSumOfLights ==
    (output.kind = "render" /\ output.result.completed)
        => \A p \in 1..Len(output.result.shaded) :
               output.result.shaded[p].object # 0
                   => /\ output.result.shaded[p].color
                             = SumOfLights(input.scene, output.result.shaded[p],
                                   input.scene.objects[output.result.shaded[p].object],
                                   input.camera.eyePosition, 1)
                      /\ LitBy(input.scene, output.result.shaded[p].info.point) = {}
                             => output.result.shaded[p].color = Vec3(0, 0, 0)
                      /\ PixelIs(output.result.pixels, p - 1, output.result.shaded[p].color)

\* a scene of two lights has been rendered: one hit is in the shadow of
\* both, and another is lit by both to a color above 1 that the pixel clamps
C23_Witness ==
    /\ output.kind = "render"
    /\ output.result.completed
    /\ Len(input.scene.lights) = 2
    /\ \E p \in 1..Len(output.result.shaded) :
           /\ output.result.shaded[p].object # 0
           /\ LitBy(input.scene, output.result.shaded[p].info.point) = {}
           /\ \A k \in 1..2 :
                  dot(output.result.shaded[p].info.normal,
                      subtract(input.scene.lights[k].position,
                               output.result.shaded[p].info.point)) > 0
    /\ \E p \in 1..Len(output.result.shaded) :
           /\ output.result.shaded[p].object # 0
           /\ LitBy(input.scene, output.result.shaded[p].info.point) = {1, 2}
           /\ output.result.shaded[p].color.x > Unit
           /\ output.result.pixels[4 * (p - 1) + 1] = 255

\* the camera looks along the world-up axis: eye - lookAt is a multiple,
\* not zero, of (0, 1, 0)
LooksAlongUp(cam) ==
    /\ cam.eyePosition.x = cam.lookAt.x
    /\ cam.eyePosition.z = cam.lookAt.z
    /\ cam.eyePosition.y # cam.lookAt.y

\* C24: for a camera that looks exactly along the world-up axis, updateBasis
\* takes the fallback and sets the right vector u to exactly (1, 0, 0), and
\* none of u, v, w is the zero vector: each has length 1
C24_StraightDownBasis ==
    (output.kind = "basis" /\ LooksAlongUp(input.camera))
        => /\ output.result.u = Vec3(Unit, 0, 0)
           /\ output.result.w
                  = Vec3(0, IF input.camera.eyePosition.y > input.camera.lookAt.y
                            THEN Unit ELSE -Unit, 0)
           /\ output.result.v # Vec3(0, 0, 0)
           /\ Near(length(output.result.v), Unit)
           /\ (input.camera.eyePosition = Vec3(0, 5 * Unit, 0)
               /\ input.camera.lookAt = Vec3(0, 0, 0))
                  => output.result.v = Vec3(0, 0, -Unit)

\* the basis of the camera at (0, 5, 0) that looks at the origin has been
\* computed
C24_Witness ==
    /\ output.kind = "basis"
    /\ input.camera.eyePosition = Vec3(0, 5 * Unit, 0)
    /\ input.camera.lookAt = Vec3(0, 0, 0)
    /\ output.result.u = Vec3(Unit, 0, 0)

\* the primitives that the step changes
Changed == {id \in 1..Len(heap) : heap'[id] # heap[id]}

\* C25: the step that completes a texture load changes no primitive but the
\* one that was selected when the load started, and ends without an error
\* that nothing handles, whatever happened to the selection meanwhile
C25_TextureGoesToTarget ==
    [][(microtask # NoTask /\ microtask' = NoTask)
           => /\ Changed \subseteq {textureLoads[microtask.load].target}
              /\ textureLoads'[microtask.load].outcome # "uncaught"]_vars

\* C25, what the program does instead: a load started on one primitive has
\* put its texture on another that was selected meanwhile, and a load has
\* ended in an error that nothing handles after the selection was cleared
C25_TextureOnOtherPrimitive ==
    \E k \in 1..Len(textureLoads) :
        /\ textureLoads[k].outcome = "applied"
        /\ selectedObject # 0
        /\ selectedObject # textureLoads[k].target
        /\ heap[selectedObject].textureId = textureLoads[k].file.name
        /\ heap[textureLoads[k].target].textureId # textureLoads[k].file.name

C25_UncaughtAfterDeselect ==
    \E k \in 1..Len(textureLoads) :
        /\ textureLoads[k].outcome = "uncaught"
        /\ textureLoads[k].target # 0
        /\ selectedObject = 0

\* C26: selectedObject is null or a primitive of scene.objects, and never
\* the ground plane, the first Plane of scene.objects
C26_SelectionInScene ==
    selectedObject # 0
        => /\ \E k \in 1..Len(scene.objects) : scene.objects[k] = selectedObject
           /\ selectedObject # FindPlane(heap, scene.objects, 1)

\* with a mesh loaded, a click on the ground plane has cleared the selection
C26_Witness ==
    /\ selectedObject = 0
    /\ lastPick # NoPick
    /\ lastPick.hitResult.object # 0
    /\ scene.objects[lastPick.hitResult.object] = FindPlane(heap, scene.objects, 1)
    /\ \E k \in 1..Len(scene.objects) : heap[scene.objects[k]].kind = "Mesh"


\* the 0-based position of object id in objects, -1 when it is not there
\* (Array.prototype.indexOf)
IndexOfObject(objects, id) ==
    IF \E k \in 1..Len(objects) : objects[k] = id
    THEN (CHOOSE k \in 1..Len(objects) :
              /\ objects[k] = id
              /\ \A j \in 1..(k - 1) : objects[j] # id) - 1
    ELSE -1

\* C27: selectedObjectIndex is the index of selectedObject in scene.objects,
\* and is -1 exactly when nothing is selected
C27_IndexMatchesSelection ==
    /\ selectedObjectIndex = (IF selectedObject = 0 THEN -1
                              ELSE IndexOfObject(scene.objects, selectedObject))
    /\ (selectedObjectIndex = -1) <=> (selectedObject = 0)

\* a model load has selected the new mesh and the index still says that
\* nothing is selected
C27_MeshSelectedIndexStale ==
    /\ selectedObject # 0
    /\ heap[selectedObject].kind = "Mesh"
    /\ selectedObjectIndex = -1

\* a model load has selected the new mesh and the index is still that of
\* the sphere selected before
C27_MeshSelectedIndexOfSphere ==
    /\ selectedObject # 0
    /\ heap[selectedObject].kind = "Mesh"
    /\ selectedObjectIndex >= 0
    /\ selectedObjectIndex # IndexOfObject(scene.objects, selectedObject)


\* the positions of the meshes in objects
MeshPositions(hp, objects) ==
    {k \in 1..Len(objects) : hp[objects[k]].kind = "Mesh"}

\* the Planes and Spheres of objects, in their order
PlanesAndSpheres(hp, objects) ==
    [k \in 1..Cardinality({j \in 1..Len(objects) : hp[objects[j]].kind # "Mesh"}) |->
        objects[CHOOSE j \in 1..Len(objects) :
                    /\ hp[objects[j]].kind # "Mesh"
                    /\ Cardinality({i \in 1..j : hp[objects[i]].kind # "Mesh"}) = k]]

\* C28: scene.objects holds at most one Mesh, the one loaded last and in the
\* last place, and a load leaves the Planes and Spheres of the scene in the
\* scene, in the order they had
C28_OneMeshPrimitivesKept ==
    /\ [](/\ Cardinality(MeshPositions(heap, scene.objects)) <= 1
          /\ \A k \in MeshPositions(heap, scene.objects) :
                /\ k = Len(scene.objects)
                /\ scene.objects[k] = Len(heap))
    /\ [][PlanesAndSpheres(heap', scene'.objects) = PlanesAndSpheres(heap, scene.objects)]_vars

\* a second mesh has been loaded and has taken the place of the first
C28_Witness ==
    /\ Len(heap) = Len(InitHeap) + 2
    /\ scene.objects = Append(InitScene.objects, Len(heap))
    /\ heap[Len(heap)].kind = "Mesh"
    /\ heap[Len(heap) - 1].kind = "Mesh"


PitchInRange(pitch) == -89 * Unit <= pitch /\ pitch <= 89 * Unit
RadiusInRange(radius) == Unit <= radius /\ radius <= 20 * Unit

\* C29: after any mouse-move, wheel and slider events cameraPitch is in
\* [-89, 89] and cameraRadius in [1, 20], whatever values the events carry,
\* so at a render the eye is not at lookAt and the view direction is not
\* along world-up
C29_OrbitBoundsByHandlers ==
    /\ PitchInRange(cameraPitch)
    /\ RadiusInRange(cameraRadius)
    /\ camera.eyePosition # camera.lookAt
    /\ \/ camera.eyePosition.x # camera.lookAt.x
       \/ camera.eyePosition.z # camera.lookAt.z


\* the view direction of cam is neither zero nor along world-up
LooksAside(cam) ==
    \/ cam.eyePosition.x # cam.lookAt.x
    \/ cam.eyePosition.z # cam.lookAt.z

\* the values given to the orbit radius slider that its range does not hold
SliderValuesOutOfRange ==
    {s[2] : s \in {t \in OrbitSliderInputs : t[1] = "orbitRadius" /\ ~RadiusInRange(t[2])}}

\* cameraPitch is in [-89, 89] after any events; cameraRadius is in [1, 20]
\* after every wheel event, and otherwise is the value the slider was given,
\* in [1, 20] when that value is; with both in range the eye is not at lookAt
\* and the view direction is not along world-up at the render
C29_OrbitBoundsWithinSliderRange ==
    /\ [](/\ PitchInRange(cameraPitch)
          /\ RadiusInRange(cameraRadius) \/ cameraRadius \in SliderValuesOutOfRange
          /\ RadiusInRange(cameraRadius)
                => /\ LooksAside(camera)
                   /\ lastRender.camera = camera => LooksAside(lastRender.camera))
    /\ [][(\E d \in OrbitWheelDeltas : onMouseWheel(d)) => RadiusInRange(cameraRadius')]_vars
    /\ [][(\E s \in OrbitSliderInputs : updateCameraFromUI(s[1], s[2]) /\ s[1] = "orbitRadius")
              => \E s \in OrbitSliderInputs : s[1] = "orbitRadius" /\ cameraRadius' = s[2]]_vars

\* the wheel has brought the radius to its lower bound and a drag the pitch
\* to its upper bound, and the scene is rendered from there
C29_Witness ==
    /\ cameraRadius = Unit
    /\ cameraPitch = 89 * Unit
    /\ lastRender.camera = camera
    /\ LooksAside(camera)

\* the slider has been given 0 and the scene is rendered with the eye at lookAt
C29_SliderPutsEyeAtLookAt ==
    /\ cameraRadius = 0
    /\ camera.eyePosition = camera.lookAt
    /\ lastRender.camera = camera


\* the material a mesh is loaded with, as the load handler states it: that
\* of the selected primitive, or none when nothing is selected
MaterialAtLoad(hp, selected) ==
    IF selected # 0
    THEN [textureId |-> hp[selected].textureId,
          specularColor |-> hp[selected].specularColor,
          shininess |-> hp[selected].shininess,
          reflectivity |-> hp[selected].reflectivity]
    ELSE [textureId |-> Null, specularColor |-> Vec3(0, 0, 0),
          shininess |-> 0, reflectivity |-> 0]

\* C30: a mesh loaded while a primitive is selected has that primitive's
\* textureId, specular color, shininess and reflectivity, and a mesh loaded
\* with nothing selected has no texture, zero specular color, shininess 0
\* and reflectivity 0
C30_MeshCarriesSelectionMaterial ==
    [][Len(heap') = Len(heap) + 1
          => LET mesh == heap'[Len(heap')]
             IN  [textureId |-> mesh.textureId, specularColor |-> mesh.specularColor,
                  shininess |-> mesh.shininess, reflectivity |-> mesh.reflectivity]
                     = MaterialAtLoad(heap, selectedObject)]_vars

\* a mesh loaded with nothing selected has no material of its own
C30_MeshWithNoSelection ==
    [][Len(heap') = Len(heap) + 1 /\ selectedObject = 0
          => LET mesh == heap'[Len(heap')]
             IN  [textureId |-> mesh.textureId, specularColor |-> mesh.specularColor,
                  shininess |-> mesh.shininess, reflectivity |-> mesh.reflectivity]
                     = MaterialAtLoad(heap, 0)]_vars

====
